---- MODULE Spec2Model ----
(***************************************************************************)
(* Model of the bbs-rag backend: the graph synchronization pipeline        *)
(* (backend/app/sync/pipeline.py), the incremental index update            *)
(* (backend/scripts/update_index.py) and the sliding-window loader         *)
(* (backend/app/rag/loader.py).                                            *)
(*                                                                         *)
(* The source table public.res is the set `res` of record numbers; the     *)
(* graph store is `posts` and `relationships` (committed rows); a running  *)
(* sync_batch keeps the rows it has flushed in its own transaction in      *)
(* `s_posts` / `s_rels` until commit or rollback.                          *)
(***************************************************************************)
EXTENDS Integers, Sequences, FiniteSets, TLC, Bags

\* ------------------------------------------------------------------ bounds

\* Highest record number the source ever assigns.
MaxNo == 3

\* Highest record number in the specification that runs the synchronizer and
\* the index update side by side.
MaxNoJoint == 2

\* create_sequential_relationships on its own: highest record number and
\* largest window_size argument of the graph-store states it is applied to.
SeqMaxNo == 4
SeqMaxWindow == 2

\* Longest oracle response, in characters (the literal NONE comes on top).
MaxReplyLen == 3

\* sync_batch(batch_size): records extracted per batch.
sync_batch_size == 2

\* infer_reply_relationships(context_window=50), scaled down to the model.
context_window == 2

\* create_sequential_relationships(window_size=20), scaled down to the model.
seq_window_size == 2

\* update_index: IncrementalThreadAwareLoader(window_size=50, overlap=20),
\* scaled down to the model.
index_window_size == 2
index_overlap == 1

\* update_index: batch_size = 10 windows per add_documents call, scaled down.
index_batch_size == 1

\* Most windows one run of the window loop is followed for.
MaxWindows == 8

\* The chunker runs: record numbers, window sizes and overlaps tried, and the
\* number of windows after which a run is cut off.
ChunkMaxNo == 5
ChunkMaxWindow == 4
ChunkMaxOverlap == 4
MaxEmitted == 10

\* ThreadAwareLoader.__init__ defaults, the values create_index passes.
default_window_size == 50
default_overlap == 20

\* The synchronizer over a backlog: highest record number in the source.
BacklogMaxNo == 4

\* Most failures of the store and the oracle in one run of sync_data.py.
MaxFailures == 2

\* The paginated scans: highest record number, highest starting number and
\* largest page size tried.
ScanMaxNo == 4
ScanMaxStart == 2
ScanMaxLimit == 2

\* The streamed answers: plain characters of an answer, and the items the
\* queue is followed with.
MaxPlain == 2
MaxQueue == 2

\* The traversals: posts and relationships of the graphs tried, seeds per
\* call, max_depth and max_nodes tried, and the rounds the recursive query is
\* followed for.
GraphMaxPosts == 3
GraphMaxEdges == 2
GraphMaxSeeds == 2
GraphMaxDepth == 2
GraphMaxNodes == 3
MaxRounds == 4

\* ------------------------------------------------------------------ helpers

Max(S) == CHOOSE x \in S : \A y \in S : y <= x

Min(S) == CHOOSE x \in S : \A y \in S : x <= y

\* ORDER BY no ASC over a set of numbers.
OrderAsc(S) ==
    [i \in 1..Cardinality(S) |-> CHOOSE x \in S : Cardinality({y \in S : y < x}) = i - 1]

\* ORDER BY no DESC over a set of numbers.
OrderDesc(S) ==
    [i \in 1..Cardinality(S) |-> CHOOSE x \in S : Cardinality({y \in S : y > x}) = i - 1]

\* LIMIT n over an ordered result.
Limit(s, n) == SubSeq(s, 1, IF Len(s) < n THEN Len(s) ELSE n)

Range(s) == {s[i] : i \in 1..Len(s)}

\* ------------------------------------------------------------------ oracle text

NONE == <<"N", "O", "N", "E">>

DigitVal == [c \in {"0", "1", "2", "3", "4", "5", "6", "7", "8", "9"} |->
               CASE c = "0" -> 0 [] c = "1" -> 1 [] c = "2" -> 2 [] c = "3" -> 3
                 [] c = "4" -> 4 [] c = "5" -> 5 [] c = "6" -> 6 [] c = "7" -> 7
                 [] c = "8" -> 8 [] c = "9" -> 9]

\* The characters an oracle response is made of in the model: the digits of
\* the record numbers, the separator, a blank and a non-numeric character.
ReplyAlphabet == {c \in DOMAIN DigitVal : DigitVal[c] \in 1..MaxNo} \cup {",", " ", "x"}

RECURSIVE StringsUpTo(_)
StringsUpTo(n) ==
    IF n = 0 THEN {<<>>}
    ELSE LET shorter == StringsUpTo(n - 1)
         IN  shorter \cup {Append(s, c) : s \in {t \in shorter : Len(t) = n - 1},
                                          c \in ReplyAlphabet}

\* Every response content the oracle can give.
ReplyTexts == StringsUpTo(MaxReplyLen) \cup {NONE}

\* str.strip()
RECURSIVE LStrip(_)
LStrip(s) == IF s # <<>> /\ Head(s) = " " THEN LStrip(Tail(s)) ELSE s

RECURSIVE RStrip(_)
RStrip(s) == IF s # <<>> /\ s[Len(s)] = " " THEN RStrip(SubSeq(s, 1, Len(s) - 1)) ELSE s

Strip(s) == RStrip(LStrip(s))

\* str.split(","): the items between the separators, empty items kept.
RECURSIVE SplitFrom(_, _)
SplitFrom(s, item) ==
    IF s = <<>> THEN <<item>>
    ELSE IF Head(s) = "," THEN <<item>> \o SplitFrom(Tail(s), <<>>)
    ELSE SplitFrom(Tail(s), Append(item, Head(s)))

Split(s) == SplitFrom(s, <<>>)

\* int(item) succeeds on a non-empty string of digits (after int's own
\* stripping of blanks) and raises ValueError otherwise.
IntOk(item) ==
    LET t == Strip(item)
    IN  t # <<>> /\ \A i \in 1..Len(t) : t[i] \in DOMAIN DigitVal

RECURSIVE DecimalValue(_)
DecimalValue(t) ==
    IF t = <<>> THEN 0
    ELSE 10 * DecimalValue(SubSeq(t, 1, Len(t) - 1)) + DigitVal[t[Len(t)]]

ToInt(item) == DecimalValue(Strip(item))

\* ------------------------------------------------------------------ state

VARIABLES
    res,              \* source table public.res: the record numbers it holds
    posts,            \* graph store, table posts: committed Post rows
    relationships,    \* graph store, table relationships: committed rows, in insert order
    s_pc,             \* sync_batch: "idle" or "running" (inside the record loop)
    last_no,          \* sync_batch: watermark read at the start of the batch
    new_posts,        \* sync_batch: the extracted records, in order
    processed_count,  \* sync_batch: records handled so far in this batch
    s_posts,          \* sync_batch: Post rows flushed in the open transaction
    s_rels,           \* sync_batch: Relationship rows added to the open session
    s_warned,         \* sync_batch: records whose oracle response logged a parse warning
    s_prompt,         \* sync_batch: the prompt of the last record handled, if one was sent
    sync_result,      \* what the last sync_batch call gave its caller
    index_metadata,   \* the file index_metadata.json
    index_docs,       \* the parent documents the retriever holds, in the order added
    u_pc,             \* update_index: "idle", "loading" or "adding"
    u_start_no,       \* update_index: last_processed_no read from the metadata
    latest_no,        \* update_index: max(Res.no) read at the start
    parent_docs,      \* update_index: the windows loaded for this run
    u_i,              \* update_index: the loop variable i of the add loop
    u_skipped,        \* update_index: numbers of the batches reported as skipped
    update_result,    \* how the last update_index call ended
    seq_call,         \* a direct call of create_sequential_relationships and its result
    t_loader,         \* the ThreadAwareLoader object: its constructor arguments and stride
    t_pc,             \* lazy_load: "off", "init", "running" or "done"
    t_all_docs,       \* lazy_load: all_docs
    t_position,       \* lazy_load: position
    t_window_count,   \* lazy_load: window_count
    t_yielded,        \* lazy_load: the parent Documents yielded so far
    t_previous,       \* the documents and the yield of an earlier lazy_load call
    cw_call,          \* a call of SlidingWindowChunker.create_windows and its result
    g_call,           \* a call of a GraphTraverser method and its result
    run,              \* sync_data.py: the mode, the position in the loop, the outcome
    scan,             \* a paginated scan of the source: its position and its pages
    other,            \* the session of a second synchronizer
    stream,           \* POST /ask: the LLM task, the queue, the buffer and the events sent
    http              \* the last GET request and its response

graph_vars == <<posts, relationships>>
session_vars == <<s_pc, last_no, new_posts, processed_count, s_posts, s_rels, s_warned,
                  s_prompt>>
sync_vars == <<graph_vars, session_vars, sync_result>>
update_locals == <<u_pc, u_start_no, latest_no, parent_docs, u_i, u_skipped>>
index_vars == <<index_metadata, index_docs, update_locals, update_result>>
loader_vars == <<t_loader, t_pc, t_all_docs, t_position, t_window_count, t_yielded,
                 t_previous>>
chunk_vars == <<loader_vars, cw_call>>
rag_vars == <<g_call>>
run_vars == <<run>>
ext_vars == <<scan, other, stream, http>>

\* ------------------------------------------------------------------ graph store

\* Post(source_post_no=...), post_id generated by uuid4 at flush.
Post(post_id, no) == [post_id |-> post_id, source_post_no |-> no]

\* uuid4: an id no row visible to the session carries.
NewPostId(visible) ==
    LET used == {p.post_id : p \in visible}
    IN  CHOOSE i \in 1..(Cardinality(used) + 1) : i \notin used

Relationship(src, tgt, type, props) ==
    [source_node_id |-> src, target_node_id |-> tgt,
     relationship_type |-> type, properties |-> props]

PostIds(rows) == {p.post_id : p \in rows}

NoOfId(rows, id) == (CHOOSE p \in rows : p.post_id = id).source_post_no

\* select(Post).where(Post.source_post_no == no): the matching rows.
PostsByNo(visible, no) == {p \in visible : p.source_post_no = no}

\* unique=True on posts.source_post_no: the flush of a second row fails.
UniqueViolation(visible, no) == PostsByNo(visible, no) # {}

\* select(func.max(Post.source_post_no)) ... or 0
get_last_processed_no(visible) ==
    IF visible = {} THEN 0 ELSE Max({p.source_post_no : p \in visible})

\* Mutant: the page is taken from the top of the table (ORDER BY no DESC).
extract_new_posts_desc(source, last, limit) ==
    Limit(OrderDesc({n \in source : n > last}), limit)

\* Mutant: the watermark record itself is extracted again (no >= :last_no).
extract_new_posts_from(source, last, limit) ==
    Limit(OrderAsc({n \in source : n >= last}), limit)

\* SELECT ... FROM public.res WHERE no > :last_no ORDER BY no ASC LIMIT :limit
extract_new_posts(source, last, limit) ==
    Limit(OrderAsc({n \in source : n > last}), limit)

\* The context query: the context_window rows below the post, highest first.
recent_posts(post, visible, window) ==
    Limit(OrderDesc({p.source_post_no : p \in {q \in visible :
                        q.source_post_no < post.source_post_no}}), window)

Reverse(s) == [i \in 1..Len(s) |-> s[Len(s) + 1 - i]]

\* Mutant: the context lists the rows as the query returned them.
OracleContext_as_queried(recent) == recent

\* The context of the prompt: one line per row of recent_posts, reversed.
OracleContext(recent) == Reverse(recent)

\* No prompt was sent for the record.
NoPrompt == [sent |-> FALSE]

\* The prompt: the context lines and the number of the new post.
Prompt(post, recent) ==
    [sent |-> TRUE, no |-> post.source_post_no, context |-> OracleContext(recent)]

\* Mutant: items that are no integers are skipped, the others kept.
ParseReply_lenient(reply_text) ==
    LET items == Split(reply_text)
        good == SelectSeq(items, IntOk)
    IN  [ok |-> TRUE, nos |-> [i \in 1..Len(good) |-> ToInt(good[i])]]

\* The parse of the response: the list comprehension over split(",") raises
\* ValueError as a whole when one item is no integer.
ParseReply(reply_text) ==
    LET items == Split(reply_text)
    IN  IF \A i \in 1..Len(items) : IntOk(items[i])
        THEN [ok |-> TRUE, nos |-> [i \in 1..Len(items) |-> ToInt(items[i])]]
        ELSE [ok |-> FALSE, nos |-> <<>>]

\* Mutant: an edge is built for every number, also when no row carries it.
ReplyRels_unchecked(post, visible, nos) ==
    [i \in 1..Len(nos) |->
        Relationship(post.post_id,
                     IF PostsByNo(visible, nos[i]) # {}
                     THEN (CHOOSE p \in PostsByNo(visible, nos[i]) : TRUE).post_id
                     ELSE 0,
                     "IS_REPLY_TO", [confidence |-> "0.8"])]

\* The loop over reply_nos: one Relationship per number that names a row.
RECURSIVE ReplyRels(_, _, _)
ReplyRels(post, visible, nos) ==
    IF nos = <<>> THEN <<>>
    ELSE LET target == PostsByNo(visible, Head(nos))
             rest == ReplyRels(post, visible, Tail(nos))
         IN  IF target # {}
             THEN <<Relationship(post.post_id, (CHOOSE p \in target : TRUE).post_id,
                                 "IS_REPLY_TO", [confidence |-> "0.8"])>> \o rest
             ELSE rest

\* infer_reply_relationships: called = the oracle was invoked, warned = the
\* except branch logged a warning, raised = an exception left the function,
\* rels = the list returned.
infer_reply_relationships(post, visible, window, content) ==
    IF recent_posts(post, visible, window) = <<>>
    THEN [called |-> FALSE, warned |-> FALSE, raised |-> FALSE, rels |-> <<>>,
          prompt |-> NoPrompt]
    ELSE LET reply_text == Strip(content)
             prompt == Prompt(post, recent_posts(post, visible, window))
         IN  IF reply_text # NONE /\ reply_text # <<>>
             THEN LET parsed == ParseReply(reply_text)
                  IN  [called |-> TRUE, warned |-> ~parsed.ok, raised |-> FALSE,
                       rels |-> IF parsed.ok THEN ReplyRels(post, visible, parsed.nos)
                                ELSE <<>>,
                       prompt |-> prompt]
             ELSE [called |-> TRUE, warned |-> FALSE, raised |-> FALSE, rels |-> <<>>,
                   prompt |-> prompt]

\* The loop over the source rows that follow the post: one Relationship per
\* row whose Post exists in the graph store.
RECURSIVE SequentialRels(_, _, _)
SequentialRels(post, visible, rows) ==
    IF rows = <<>> THEN <<>>
    ELSE LET target == PostsByNo(visible, Head(rows))
             rest == SequentialRels(post, visible, Tail(rows))
         IN  IF target # {}
             THEN <<Relationship(post.post_id, (CHOOSE p \in target : TRUE).post_id,
                                 "IS_SEQUENTIAL_TO",
                                 [distance |-> Head(rows) - post.source_post_no])>> \o rest
             ELSE rest

\* Mutant: the rows that precede the post are taken (no < :current_no).
create_sequential_relationships_preceding(post, source, visible, window_size) ==
    SequentialRels(post, visible,
                   Limit(OrderDesc({n \in source : n < post.source_post_no}), window_size))

\* Mutant: the rows are bounded by number (no <= :current_no + :limit), not
\* by count.
create_sequential_relationships_by_range(post, source, visible, window_size) ==
    SequentialRels(post, visible,
                   OrderAsc({n \in source : /\ n > post.source_post_no
                                            /\ n <= post.source_post_no + window_size}))

\* create_sequential_relationships: SELECT no FROM public.res WHERE no >
\* :current_no ORDER BY no ASC LIMIT :limit, then the loop.
create_sequential_relationships(post, source, visible, window_size) ==
    SequentialRels(post, visible,
                   Limit(OrderAsc({n \in source : n > post.source_post_no}), window_size))

\* rag_db.commit(): the rows of the open transaction become committed rows.
CommitPosts(committed, staged) == committed \cup staged
CommitRels(committed, staged) == committed \o staged

\* Mutant: a failed batch resets the table for a fresh synchronization.
RollbackPosts_truncates(committed, staged) == {}

\* Mutant: the rows flushed before the failure stay in the table.
RollbackPosts_keeps(committed, staged) == committed \cup staged

\* rag_db.rollback(): the rows of the open transaction are discarded.
RollbackPosts(committed, staged) == committed
RollbackRels(committed, staged) == committed

\* ------------------------------------------------------------------ source

\* The board appends a record; numbers are assigned in increasing order and
\* may leave gaps.
AppendRecordUpTo(max_no) ==
    /\ \E n \in 1..max_no :
          /\ \A m \in res : m < n
          /\ res' = res \cup {n}
    /\ UNCHANGED <<sync_vars, index_vars, seq_call, chunk_vars, rag_vars, run_vars, ext_vars>>

AppendRecord == AppendRecordUpTo(MaxNo)

AppendRecordJoint == AppendRecordUpTo(MaxNoJoint)

\* ------------------------------------------------------------------ sync_batch

\* The rows the open session sees: the committed ones and its own.
Visible == posts \cup s_posts

SessionClosed ==
    /\ s_pc' = "idle"
    /\ last_no' = 0
    /\ new_posts' = <<>>
    /\ processed_count' = 0
    /\ s_posts' = {}
    /\ s_rels' = <<>>
    /\ s_warned' = {}
    /\ s_prompt' = NoPrompt

\* sync_batch returned `count` to its caller.
Returned(count) == [kind |-> "returned", count |-> count, failed_no |-> 0]

\* sync_batch raised; failed_no is the record named in the error log (0 when
\* the exception did not come from the record loop).
Raised(failed_no) == [kind |-> "raised", count |-> 0, failed_no |-> failed_no]

\* sync_batch, lines 184-193: nothing above the watermark, return 0.
SyncBatchNoNew ==
    /\ s_pc = "idle"
    /\ extract_new_posts(res, get_last_processed_no(posts), sync_batch_size) = <<>>
    /\ sync_result' = Returned(0)
    /\ UNCHANGED <<res, graph_vars, session_vars, index_vars, seq_call, chunk_vars, rag_vars, run_vars, ext_vars>>

\* sync_batch, lines 184-195: read the watermark, extract the batch.
SyncBatchBegin ==
    /\ s_pc = "idle"
    /\ LET last == get_last_processed_no(posts)
           extracted == extract_new_posts(res, last, sync_batch_size)
       IN  /\ extracted # <<>>
           /\ s_pc' = "running"
           /\ last_no' = last
           /\ new_posts' = extracted
    /\ processed_count' = 0
    /\ s_posts' = {}
    /\ s_rels' = <<>>
    /\ s_warned' = {}
    /\ s_prompt' = NoPrompt
    /\ UNCHANGED <<res, graph_vars, sync_result, index_vars, seq_call, chunk_vars, rag_vars, run_vars, ext_vars>>

\* sync_batch, lines 200-213, for the next record of the batch with the
\* oracle answering `content`: the Post flushed, the relationships added to
\* the session, and whether an exception left infer_reply_relationships.
HandleRecord(content) ==
    LET no == new_posts[processed_count + 1]
        post == Post(NewPostId(Visible), no)
        seen == Visible \cup {post}
        reply == infer_reply_relationships(post, seen, context_window, content)
        seq_rels == create_sequential_relationships(post, res, seen, seq_window_size)
    IN  [no |-> no,
         raised |-> reply.raised,
         s_posts |-> s_posts \cup {post},
         s_rels |-> s_rels \o reply.rels \o seq_rels,
         s_warned |-> IF reply.warned THEN s_warned \cup {no} ELSE s_warned,
         s_prompt |-> reply.prompt]

\* sync_batch, lines 198-223: one record handled, the oracle answering
\* `content`. The record's rows are staged, unless an exception leaves
\* infer_reply_relationships: then the batch is rolled back and re-raised.
ProcessPostWith(content) ==
    /\ s_pc = "running"
    /\ processed_count < Len(new_posts)
    /\ LET handled == HandleRecord(content)
       IN  /\ ~UniqueViolation(Visible, handled.no)
           /\ IF handled.raised
              THEN /\ posts' = RollbackPosts(posts, handled.s_posts)
                   /\ relationships' = RollbackRels(relationships, s_rels)
                   /\ SessionClosed
                   /\ sync_result' = Raised(handled.no)
              ELSE /\ s_posts' = handled.s_posts
                   /\ s_rels' = handled.s_rels
                   /\ s_warned' = handled.s_warned
                   /\ s_prompt' = handled.s_prompt
                   /\ processed_count' = processed_count + 1
                   /\ UNCHANGED <<graph_vars, s_pc, last_no, new_posts, sync_result>>
    /\ UNCHANGED <<res, index_vars, seq_call, chunk_vars, rag_vars, run_vars, ext_vars>>

ProcessPost == \E content \in ReplyTexts : ProcessPostWith(content)

\* sync_batch, lines 220-223: an exception from outside while a record is
\* handled (the store at the flush or a query, the oracle call): rollback and
\* re-raise.
ProcessPostFail ==
    /\ s_pc = "running"
    /\ processed_count < Len(new_posts)
    /\ posts' = RollbackPosts(posts, s_posts)
    /\ relationships' = RollbackRels(relationships, s_rels)
    /\ SessionClosed
    /\ sync_result' = Raised(new_posts[processed_count + 1])
    /\ UNCHANGED <<res, index_vars, seq_call, chunk_vars, rag_vars, run_vars, ext_vars>>

\* sync_batch, lines 225-229: commit and return the count.
SyncBatchCommit ==
    /\ s_pc = "running"
    /\ processed_count = Len(new_posts)
    /\ posts' = CommitPosts(posts, s_posts)
    /\ relationships' = CommitRels(relationships, s_rels)
    /\ SessionClosed
    /\ sync_result' = Returned(processed_count)
    /\ UNCHANGED <<res, index_vars, seq_call, chunk_vars, rag_vars, run_vars, ext_vars>>

\* sync_batch, line 226 raising: the exception leaves the with block, which
\* closes the session and with it discards the open transaction.
SyncBatchCommitFail ==
    /\ s_pc = "running"
    /\ processed_count = Len(new_posts)
    /\ posts' = RollbackPosts(posts, s_posts)
    /\ relationships' = RollbackRels(relationships, s_rels)
    /\ SessionClosed
    /\ sync_result' = Raised(0)
    /\ UNCHANGED <<res, index_vars, seq_call, chunk_vars, rag_vars, run_vars, ext_vars>>

\* ------------------------------------------------------------------ sync_all, run_continuous_sync

\* sync_batch has been called and has not come back yet.
Pending == [kind |-> "pending", count |-> 0, failed_no |-> 0]

\* A KeyboardInterrupt went through sync_batch.
Interrupted == [kind |-> "interrupted", count |-> 0, failed_no |-> 0]

\* sync_data.py has not been started.
NotStarted ==
    [mode |-> "none", pc |-> "off", called |-> FALSE, total_processed |-> 0,
     slept |-> 0, failures |-> 0, caught |-> FALSE, failed_no |-> 0,
     outcome |-> "none", exit_status |-> 0 - 1]

\* main(): pipeline.sync_all(...) or pipeline.run_continuous_sync(...),
\* about to enter `while True`.
Started(mode) == [NotStarted EXCEPT !.mode = mode, !.pc = "loop", !.outcome = "running"]

\* The function came back to main(), which returns: exit status 0.
ReturnsToMain(r) == [r EXCEPT !.pc = "exited", !.outcome = "returned", !.exit_status = 0]

\* An exception leaves main(): the interpreter prints the traceback and ends
\* the process with `status`.
LeavesMain(r, status) ==
    [r EXCEPT !.pc = "exited", !.outcome = "raised", !.exit_status = status]

\* sync_all, lines 238-248: add the count, break on 0 and return the total.
sync_all_returned(r, count) ==
    LET added == [r EXCEPT !.total_processed = @ + count]
    IN  IF count = 0 THEN ReturnsToMain(added) ELSE [added EXCEPT !.pc = "loop"]

\* Mutant: sync_all logs the exception and goes on with the next batch.
sync_all_raised_goes_on(r) == [r EXCEPT !.failures = @ + 1, !.pc = "loop"]

\* sync_all has no handler: the exception of sync_batch leaves it, and
\* main() with it (sync_data.py 40-42).
sync_all_raised(r) == LeavesMain([r EXCEPT !.failures = @ + 1], 1)

\* run_continuous_sync, lines 261-264: time.sleep(interval_seconds) after
\* the batch, whatever its count.
continuous_returned(r) ==
    [r EXCEPT !.pc = "sleeping", !.slept = @ + 1, !.caught = FALSE, !.failed_no = 0]

\* Mutant: the exception of sync_batch leaves run_continuous_sync.
continuous_raised_leaves(r, failed_no) == LeavesMain([r EXCEPT !.failures = @ + 1], 1)

\* run_continuous_sync, lines 268-271: except Exception, log, then
\* time.sleep(interval_seconds).
continuous_raised(r, failed_no) ==
    [r EXCEPT !.pc = "retry_sleeping", !.slept = @ + 1, !.failures = @ + 1,
              !.caught = TRUE, !.failed_no = failed_no]

\* Mutant: the loop stays asleep.
after_sleep_stays(r) == r

\* time.sleep returned: back to the top of `while True`.
after_sleep(r) == [r EXCEPT !.pc = "loop"]

\* The exit statuses of an interpreter ended by an unhandled
\* KeyboardInterrupt: 1, or death by SIGINT seen as 130.
InterruptStatuses == {1, 130}

\* sync_data.py --initial
StartSyncAll ==
    /\ run.pc = "off"
    /\ run' = Started("sync_all")
    /\ UNCHANGED <<res, sync_vars, index_vars, seq_call, chunk_vars, rag_vars, ext_vars>>

\* sync_data.py
StartContinuous ==
    /\ run.pc = "off"
    /\ run' = Started("continuous")
    /\ UNCHANGED <<res, sync_vars, index_vars, seq_call, chunk_vars, rag_vars, ext_vars>>

\* count = self.sync_batch(batch_size): the call is made.
CallSyncBatch ==
    /\ run.pc = "loop"
    /\ run' = [run EXCEPT !.pc = "in_batch", !.called = TRUE, !.slept = 0]
    /\ sync_result' = Pending
    /\ UNCHANGED <<res, graph_vars, session_vars, index_vars, seq_call, chunk_vars, rag_vars, ext_vars>>

BatchCalled == run.pc = "in_batch" /\ sync_result = Pending

\* The steps of the sync_batch call made by the loop.
RunSyncBatchNoNew == BatchCalled /\ SyncBatchNoNew

RunSyncBatchBegin == BatchCalled /\ SyncBatchBegin

\* The failures of the store and the oracle, at most MaxFailures in a run.
RunProcessPostFail == run.failures < MaxFailures /\ ProcessPostFail

RunSyncBatchCommitFail == run.failures < MaxFailures /\ SyncBatchCommitFail

BatchCameBack == run.pc = "in_batch" /\ s_pc = "idle" /\ sync_result # Pending

\* sync_all: sync_batch returned its count.
SyncAllReturned ==
    /\ run.mode = "sync_all"
    /\ BatchCameBack
    /\ sync_result.kind = "returned"
    /\ run' = sync_all_returned(run, sync_result.count)
    /\ UNCHANGED <<res, sync_vars, index_vars, seq_call, chunk_vars, rag_vars, ext_vars>>

\* sync_all: sync_batch raised.
SyncAllRaised ==
    /\ run.mode = "sync_all"
    /\ BatchCameBack
    /\ sync_result.kind = "raised"
    /\ run' = sync_all_raised(run)
    /\ UNCHANGED <<res, sync_vars, index_vars, seq_call, chunk_vars, rag_vars, ext_vars>>

\* run_continuous_sync: sync_batch returned its count.
ContinuousReturned ==
    /\ run.mode = "continuous"
    /\ BatchCameBack
    /\ sync_result.kind = "returned"
    /\ run' = continuous_returned(run)
    /\ UNCHANGED <<res, sync_vars, index_vars, seq_call, chunk_vars, rag_vars, ext_vars>>

\* run_continuous_sync: sync_batch raised.
ContinuousRaised ==
    /\ run.mode = "continuous"
    /\ BatchCameBack
    /\ sync_result.kind = "raised"
    /\ run' = continuous_raised(run, sync_result.failed_no)
    /\ UNCHANGED <<res, sync_vars, index_vars, seq_call, chunk_vars, rag_vars, ext_vars>>

\* time.sleep(interval_seconds) is over, in the try block or in the handler.
Wake ==
    /\ run.pc \in {"sleeping", "retry_sleeping"}
    /\ run' = after_sleep(run)
    /\ run' # run
    /\ UNCHANGED <<res, sync_vars, index_vars, seq_call, chunk_vars, rag_vars, ext_vars>>

\* KeyboardInterrupt inside the try block, outside sync_batch (line 264, or
\* on the way to the call): except KeyboardInterrupt, break, return.
InterruptInTry ==
    /\ run.mode = "continuous"
    /\ run.pc \in {"loop", "sleeping"}
    /\ run' = ReturnsToMain(run)
    /\ UNCHANGED <<res, sync_vars, index_vars, seq_call, chunk_vars, rag_vars, ext_vars>>

\* KeyboardInterrupt inside sync_batch: `except Exception` does not take it,
\* the with block closes the session (database.py 36-37), which discards the
\* open transaction, and except KeyboardInterrupt of the loop breaks.
InterruptInBatch ==
    /\ run.mode = "continuous"
    /\ run.pc = "in_batch"
    /\ sync_result = Pending \/ s_pc = "running"
    /\ posts' = RollbackPosts(posts, s_posts)
    /\ relationships' = RollbackRels(relationships, s_rels)
    /\ SessionClosed
    /\ sync_result' = Interrupted
    /\ run' = ReturnsToMain(run)
    /\ UNCHANGED <<res, index_vars, seq_call, chunk_vars, rag_vars, ext_vars>>

\* KeyboardInterrupt inside the handler's time.sleep (line 271): the except
\* clauses of the try statement do not cover its own handlers, so it leaves
\* run_continuous_sync and main().
InterruptInHandler ==
    /\ run.mode = "continuous"
    /\ run.pc = "retry_sleeping"
    /\ \E status \in InterruptStatuses :
          run' = [LeavesMain(run, status) EXCEPT !.outcome = "interrupted"]
    /\ UNCHANGED <<res, sync_vars, index_vars, seq_call, chunk_vars, rag_vars, ext_vars>>

\* ------------------------------------------------------------------ paginated scans

\* Mutant: the page is taken from the top of the table (ORDER BY no DESC).
res_page_desc(source, last, batch_size) ==
    Limit(OrderDesc({n \in source : n > last}), batch_size)

\* db.query(Res).filter(Res.no > last_no).order_by(Res.no).limit(batch_size)
\* of PostgresResLoader and IncrementalPostgresResLoader.
res_page(source, last, batch_size) ==
    Limit(OrderAsc({n \in source : n > last}), batch_size)

\* The scans: the page loops of the two loaders, and extract_new_posts
\* called with the last number of the page before as watermark.
ScanKinds == {"PostgresResLoader", "IncrementalPostgresResLoader", "extract_new_posts"}

\* The page query of a scan.
ScanQuery(kind, source, last, limit) ==
    IF kind = "extract_new_posts" THEN extract_new_posts(source, last, limit)
    ELSE res_page(source, last, limit)

NoScan == [pc |-> "off"]

\* The scan is set up: last_no = 0 for PostgresResLoader, start_no otherwise.
ScanStart ==
    /\ scan = NoScan
    /\ \E kind \in ScanKinds, start_no \in 0..ScanMaxStart, limit \in 1..ScanMaxLimit :
          /\ kind = "PostgresResLoader" => start_no = 0
          /\ scan' = [pc |-> "paging", kind |-> kind, start_no |-> start_no,
                      limit |-> limit, last_no |-> start_no, pages |-> <<>>]
    /\ UNCHANGED <<res, sync_vars, index_vars, seq_call, chunk_vars, rag_vars, run_vars,
                   other, stream, http>>

\* One round of the page loop: the query, the break on an empty page, the
\* records of the page handed on, last_no moved to the last of them.
ScanPage ==
    /\ scan.pc = "paging"
    /\ LET page == ScanQuery(scan.kind, res, scan.last_no, scan.limit)
       IN  scan' = IF page = <<>> THEN [scan EXCEPT !.pc = "done"]
                   ELSE [scan EXCEPT !.pages = Append(@, page),
                                     !.last_no = page[Len(page)]]
    /\ UNCHANGED <<res, sync_vars, index_vars, seq_call, chunk_vars, rag_vars, run_vars,
                   other, stream, http>>

\* ------------------------------------------------------------------ a second synchronizer

\* The session of a second sync_batch running against the same stores.
OtherIdle(result) ==
    [pc |-> "idle", last_no |-> 0, new_posts |-> <<>>, processed_count |-> 0,
     s_posts |-> {}, s_rels |-> <<>>, result |-> result]

\* uuid4 in the second process: an id no row carries.
OtherPostId(visible) ==
    LET used == {p.post_id : p \in visible}
    IN  CHOOSE i \in 101..(101 + Cardinality(used)) : i \notin used

\* The INSERT of a Post whose number another open transaction has inserted
\* waits at the unique index until that transaction ends.
FlushBlocked(staged_elsewhere, no) == PostsByNo(staged_elsewhere, no) # {}

\* Mutant: posts.source_post_no carries no unique constraint.
CommittedConflict_off(committed, no) == FALSE

\* The INSERT of a Post whose number a committed row carries fails at flush
\* (unique=True on source_post_no).
CommittedConflict(committed, no) == UniqueViolation(committed, no)

\* sync_batch of the second synchronizer, lines 184-195: read the watermark,
\* extract, return 0 when nothing is new.
OtherBegin ==
    /\ other.pc = "idle"
    /\ LET last == get_last_processed_no(posts)
           extracted == extract_new_posts(res, last, sync_batch_size)
       IN  other' = IF extracted = <<>> THEN OtherIdle(Returned(0))
                    ELSE [OtherIdle(other.result) EXCEPT !.pc = "running",
                                                         !.last_no = last,
                                                         !.new_posts = extracted]
    /\ other' # other
    /\ UNCHANGED <<res, sync_vars, index_vars, seq_call, chunk_vars, rag_vars, run_vars,
                   scan, stream, http>>

\* sync_batch of the second synchronizer, lines 198-223, one record: the
\* flush waits for an open transaction holding the number, fails on a
\* committed row with the number (rollback, re-raise), and otherwise the
\* Post and its relationships are staged.
OtherProcessPostWith(content) ==
    /\ other.pc = "running"
    /\ other.processed_count < Len(other.new_posts)
    /\ LET no == other.new_posts[other.processed_count + 1]
           visible == posts \cup other.s_posts
           post == Post(OtherPostId(visible), no)
           seen == visible \cup {post}
           reply == infer_reply_relationships(post, seen, context_window, content)
           seq_rels == create_sequential_relationships(post, res, seen, seq_window_size)
       IN  /\ ~FlushBlocked(s_posts, no)
           /\ other' = IF CommittedConflict(posts, no)
                       THEN OtherIdle(Raised(no))
                       ELSE [other EXCEPT !.s_posts = @ \cup {post},
                                          !.s_rels = @ \o reply.rels \o seq_rels,
                                          !.processed_count = @ + 1]
    /\ UNCHANGED <<res, sync_vars, index_vars, seq_call, chunk_vars, rag_vars, run_vars,
                   scan, stream, http>>

OtherProcessPost == \E content \in ReplyTexts : OtherProcessPostWith(content)

\* sync_batch of the second synchronizer, lines 225-229: commit.
OtherCommit ==
    /\ other.pc = "running"
    /\ other.processed_count = Len(other.new_posts)
    /\ posts' = CommitPosts(posts, other.s_posts)
    /\ relationships' = CommitRels(relationships, other.s_rels)
    /\ other' = OtherIdle(Returned(other.processed_count))
    /\ UNCHANGED <<res, session_vars, sync_result, index_vars, seq_call, chunk_vars,
                   rag_vars, run_vars, scan, stream, http>>

\* The record the first synchronizer handles next.
NextNo == new_posts[processed_count + 1]

\* The first synchronizer with a second one at work: its flush waits for the
\* other's open transaction.
TwoProcessPost ==
    /\ s_pc = "running"
    /\ processed_count < Len(new_posts)
    /\ ~FlushBlocked(other.s_posts, NextNo)
    /\ ~CommittedConflict(posts, NextNo)
    /\ ProcessPost

\* Its flush fails on a row the other one committed: rollback and re-raise.
TwoProcessPostConflict ==
    /\ s_pc = "running"
    /\ processed_count < Len(new_posts)
    /\ ~FlushBlocked(other.s_posts, NextNo)
    /\ CommittedConflict(posts, NextNo)
    /\ ProcessPostFail

\* ------------------------------------------------------------------ strings

\* str.find(m): the index (from 0) of the first occurrence of m in s, or -1.
Find(s, m) ==
    LET hits == {i \in 0..(Len(s) - Len(m)) : SubSeq(s, i + 1, i + Len(m)) = m}
    IN  IF hits = {} THEN 0 - 1 ELSE Min(hits)

\* m in s
Has(s, m) == Find(s, m) >= 0

\* s[i:] and s[:i] for 0 <= i <= len(s)
StrFrom(s, i) == SubSeq(s, i + 1, Len(s))

StrTo(s, i) == SubSeq(s, 1, i)

\* str.replace(m, ""): every occurrence of m removed, from the left.
RECURSIVE Remove(_, _)
RemoveFirst(s, m) ==
    IF ~Has(s, m) THEN s
    ELSE StrTo(s, Find(s, m)) \o Remove(StrFrom(s, Find(s, m) + Len(m)), m)

\* (the string is evaluated once, then searched)
Remove(s, m) == CHOOSE removed \in {RemoveFirst(text, m) : text \in {s}} : TRUE

\* ------------------------------------------------------------------ ask_with_streaming, generate_sse_events

\* The markers "[CITATION_START]" and "[CITATION_END]", shortened to three
\* characters each.
CITATION_START == <<"[", "S", "]">>

CITATION_END == <<"[", "E", "]">>

\* json.dumps(citation_data): one character stands for the JSON text.
CitationJson == <<"j">>

\* f"\n\n[CITATION_START]{json}[CITATION_END]", "n" standing for "\n\n".
CitationToken(json) == <<"n">> \o CITATION_START \o json \o CITATION_END

\* json.loads(text) followed by citation_data["citations"] succeeds.
JsonLoads(text) == text = CitationJson

\* The events, as the dictionaries given to json.dumps.
TokenEvent(text) == [type |-> "token", payload |-> text, done |-> FALSE]

CitationsEvent(json) == [type |-> "citations", payload |-> json, done |-> FALSE]

DoneEvent == [type |-> "done", payload |-> <<>>, done |-> TRUE]

ErrorEvent == [type |-> "error", payload |-> <<>>, done |-> TRUE]

\* generate_sse_events, lines 24-34: the start marker is looked for in the
\* buffer, the text before it is sent.
DetectStart(st) ==
    IF Has(st.buffer, CITATION_START) /\ ~st.citation_processing
    THEN LET citation_start_idx == Find(st.buffer, CITATION_START)
         IN  IF citation_start_idx > 0
             THEN [st EXCEPT !.events = Append(@, TokenEvent(StrTo(st.buffer,
                                                                 citation_start_idx))),
                             !.buffer = StrFrom(@, citation_start_idx),
                             !.citation_processing = TRUE]
             ELSE [st EXCEPT !.citation_processing = TRUE]
    ELSE st

\* generate_sse_events, lines 37-62: the block up to the end marker is cut
\* out, parsed and sent as a citations event, or dropped when the parse fails.
ExtractCitation(st) ==
    IF st.citation_processing /\ Has(st.buffer, CITATION_END)
    THEN LET citation_end_idx == Find(st.buffer, CITATION_END)
             citation_content == StrTo(st.buffer, citation_end_idx + Len(CITATION_END))
             citation_json == Remove(Remove(citation_content, CITATION_START),
                                     CITATION_END)
         IN  [st EXCEPT !.events = IF JsonLoads(citation_json)
                                   THEN Append(@, CitationsEvent(citation_json))
                                   ELSE @,
                        !.buffer = StrFrom(@, citation_end_idx + Len(CITATION_END)),
                        !.citation_processing = FALSE]
    ELSE st

\* generate_sse_events, lines 65-70: a buffer without start marker is sent.
SendBuffer(st) ==
    IF ~st.citation_processing /\ st.buffer # <<>> /\ ~Has(st.buffer, CITATION_START)
    THEN [st EXCEPT !.events = Append(@, TokenEvent(st.buffer)), !.buffer = <<>>]
    ELSE st

\* generate_sse_events, lines 20-70: the body of `async for` for one token.
\* (each statement works on the evaluated outcome of the one before it)
OnToken(st, token) ==
    LET received == {[st EXCEPT !.buffer = @ \o token, !.upstream = Append(@, token)]}
        detected == {DetectStart(r) : r \in received}
        extracted == {ExtractCitation(d) : d \in detected}
    IN  CHOOSE next \in {SendBuffer(e) : e \in extracted} : TRUE

\* Mutant: the stream ends without a closing event.
OnEnd_silent(st) == [st EXCEPT !.pc = "done"]

\* generate_sse_events, lines 72-78: the upstream is exhausted; the rest of
\* the buffer is sent unless a block is being collected, then the done event.
OnEnd(st) ==
    LET rest == IF st.buffer # <<>> /\ ~st.citation_processing
                THEN Append(st.events, TokenEvent(st.buffer)) ELSE st.events
    IN  [st EXCEPT !.events = Append(rest, DoneEvent), !.pc = "done"]

\* generate_sse_events, lines 79-83: the upstream raised.
OnError(st) ==
    [st EXCEPT !.events = Append(@, ErrorEvent), !.pc = "done"]

\* No question is being answered.
NoStream == [pc |-> "off"]

\* The answers the LLM is followed for: up to MaxPlain plain characters,
\* alone or followed by the text of a citation block, well-formed or not.
Plain(k) == [i \in 1..k |-> "a"]

Answers ==
    {Plain(k) : k \in 0..MaxPlain}
      \cup {Plain(k) \o CitationToken(json) : k \in 0..MaxPlain,
                                               json \in {CitationJson, <<"x">>}}

\* What extract_relevant_posts returned: no citations, or some.
CitationChoices == {FALSE, TRUE}

\* The items of the queue: a token, or None as the end signal.
QueueToken(text) == [end |-> FALSE, token |-> text]

QueueEnd == [end |-> TRUE, token |-> <<>>]

\* POST /ask: generate_sse_events starts ask_with_streaming, which runs the
\* retrieval and the citation extraction and creates the task (lines 209-245).
AskStart ==
    /\ stream = NoStream
    /\ \E answer \in Answers, citations \in CitationChoices :
          stream' = [pc |-> "loop", task |-> "running", left |-> answer,
                     queue |-> <<>>, citations |-> citations, buffer |-> <<>>,
                     citation_processing |-> FALSE, events |-> <<>>,
                     upstream |-> <<>>]
    /\ UNCHANGED <<res, sync_vars, index_vars, seq_call, chunk_vars, rag_vars, run_vars,
                   scan, other, http>>

\* The retrieval or the citation extraction raises (lines 224-231): the
\* exception reaches generate_sse_events before any token.
AskStartFails ==
    /\ stream = NoStream
    /\ stream' = OnError([pc |-> "loop", task |-> "off", left |-> <<>>,
                          queue |-> <<>>, citations |-> FALSE, buffer |-> <<>>,
                          citation_processing |-> FALSE, events |-> <<>>,
                          upstream |-> <<>>])
    /\ UNCHANGED <<res, sync_vars, index_vars, seq_call, chunk_vars, rag_vars, run_vars,
                   scan, other, http>>

\* on_llm_new_token: the next piece of the answer, of any length, is put on
\* the queue.
LlmNewToken ==
    /\ stream.pc # "off"
    /\ stream.task = "running"
    /\ Len(stream.queue) < MaxQueue
    /\ \E k \in 1..Len(stream.left) :
          stream' = [stream EXCEPT !.queue = Append(@, QueueToken(StrTo(stream.left, k))),
                                   !.left = StrFrom(@, k)]
    /\ UNCHANGED <<res, sync_vars, index_vars, seq_call, chunk_vars, rag_vars, run_vars,
                   scan, other, http>>

\* on_llm_end: the end signal is put on the queue.
LlmEnd ==
    /\ stream.pc # "off"
    /\ stream.task = "running"
    /\ stream.left = <<>>
    /\ stream' = [stream EXCEPT !.queue = Append(@, QueueEnd), !.task = "finishing"]
    /\ UNCHANGED <<res, sync_vars, index_vars, seq_call, chunk_vars, rag_vars, run_vars,
                   scan, other, http>>

\* The LLM call fails: the task ends with the exception, on_llm_end is not
\* called.
LlmFail ==
    /\ stream.pc # "off"
    /\ stream.task = "running"
    /\ stream' = [stream EXCEPT !.task = "failed"]
    /\ UNCHANGED <<res, sync_vars, index_vars, seq_call, chunk_vars, rag_vars, run_vars,
                   scan, other, http>>

\* chain.ainvoke returns after the LLM has ended.
TaskReturns ==
    /\ stream.pc # "off"
    /\ stream.task = "finishing"
    /\ stream' = [stream EXCEPT !.task = "ended"]
    /\ UNCHANGED <<res, sync_vars, index_vars, seq_call, chunk_vars, rag_vars, run_vars,
                   scan, other, http>>

\* chain.ainvoke raises after the LLM has ended.
TaskFailsLate ==
    /\ stream.pc # "off"
    /\ stream.task = "finishing"
    /\ stream' = [stream EXCEPT !.task = "failed"]
    /\ UNCHANGED <<res, sync_vars, index_vars, seq_call, chunk_vars, rag_vars, run_vars,
                   scan, other, http>>

\* ask_with_streaming, lines 248-252: queue.get() gives a token, which is
\* yielded to generate_sse_events.
GetToken ==
    /\ stream.pc = "loop"
    /\ stream.queue # <<>>
    /\ ~Head(stream.queue).end
    /\ \E token \in {Head(stream.queue).token} :
          \E taken \in {[stream EXCEPT !.queue = Tail(@)]} :
             \E next \in {OnToken(taken, token)} : stream' = next
    /\ UNCHANGED <<res, sync_vars, index_vars, seq_call, chunk_vars, rag_vars, run_vars,
                   scan, other, http>>

\* ask_with_streaming, lines 249-251: queue.get() gives None, break.
GetEndSignal ==
    /\ stream.pc = "loop"
    /\ stream.queue # <<>>
    /\ Head(stream.queue).end
    /\ stream' = [stream EXCEPT !.queue = Tail(@), !.pc = "await_task"]
    /\ UNCHANGED <<res, sync_vars, index_vars, seq_call, chunk_vars, rag_vars, run_vars,
                   scan, other, http>>

\* ask_with_streaming, lines 255-260: the task is awaited; its exception is
\* raised, otherwise the citation block is yielded when there are citations
\* and the generator ends.
AwaitTask ==
    /\ stream.pc = "await_task"
    /\ stream.task \in {"ended", "failed"}
    /\ \/ /\ stream.task = "failed"
          /\ stream' = OnError(stream)
       \/ /\ stream.task = "ended"
          /\ stream.citations
          /\ \E yielded \in {OnToken(stream, CitationToken(CitationJson))} :
                stream' = OnEnd(yielded)
       \/ /\ stream.task = "ended"
          /\ ~stream.citations
          /\ stream' = OnEnd(stream)
    /\ UNCHANGED <<res, sync_vars, index_vars, seq_call, chunk_vars, rag_vars, run_vars,
                   scan, other, http>>

\* ------------------------------------------------------------------ health endpoints

\* settings.api_v1_str = "/api/v1", as the segments of the path.
api_v1_str == <<"api", "v1">>

\* Mutant: the chat router is included without the prefix.
chat_router_prefix_none == <<>>

\* app.include_router(chat.router, prefix=settings.api_v1_str)
chat_router_prefix == api_v1_str

\* main.py: @app.get("/health")
health_check == [status_code |-> 200, json |-> [status |-> "healthy"]]

\* chat.py: @router.get("/health")
chat_health_check ==
    [status_code |-> 200, json |-> [status |-> "healthy", service |-> "chat"]]

NotFound == [status_code |-> 404, json |-> [detail |-> "Not Found"]]

\* The GET routes of the application, in the order they were added.
GetRoute(path) ==
    IF path = <<"health">> THEN health_check
    ELSE IF path = chat_router_prefix \o <<"health">> THEN chat_health_check
    ELSE NotFound

\* The paths requested.
RequestPaths == {<<"health">>, <<"api", "v1", "health">>, <<"api", "health">>}

NoRequest == [path |-> <<>>, response |-> [status_code |-> 0, json |-> [none |-> TRUE]]]

\* GET path: the response of the route.
GetRequest ==
    /\ \E path \in RequestPaths : http' = [path |-> path, response |-> GetRoute(path)]
    /\ UNCHANGED <<res, sync_vars, index_vars, seq_call, chunk_vars, rag_vars, run_vars,
                   scan, other, stream>>

\* No scan, no second synchronizer, no question and no request.
ExtIdle ==
    /\ scan = NoScan
    /\ other = OtherIdle([kind |-> "none", count |-> 0, failed_no |-> 0])
    /\ stream = NoStream
    /\ http = NoRequest

\* ------------------------------------------------------------------ loader

\* IncrementalPostgresResLoader.lazy_load: the documents of the records above
\* start_no, in ascending order (a document is identified by its record number).
incremental_load(source, start_no) == OrderAsc({n \in source : n > start_no})

\* The parent Document of one window: metadata start_no, end_no, res_count,
\* window_number and res_details; the content is the members' texts in order.
ParentDocument(window_docs, window_count) ==
    [start_no |-> window_docs[1],
     end_no |-> window_docs[Len(window_docs)],
     res_count |-> Len(window_docs),
     window_number |-> window_count,
     res_details |-> window_docs]

\* ThreadAwareLoader.lazy_load, the while loop from `position` on. done is
\* FALSE when the loop is still running after MaxWindows rounds.
RECURSIVE WindowLoop(_, _, _, _, _, _)
WindowLoop(all_docs, window_size, overlap, position, window_count, fuel) ==
    IF ~(position < Len(all_docs)) THEN [windows |-> <<>>, done |-> TRUE]
    ELSE IF fuel = 0 THEN [windows |-> <<>>, done |-> FALSE]
    ELSE LET total == Len(all_docs)
             end_position == IF position + window_size < total
                             THEN position + window_size ELSE total
             window_docs == SubSeq(all_docs, position + 1, end_position)
             emitted == IF window_docs # <<>>
                        THEN <<ParentDocument(window_docs, window_count)>> ELSE <<>>
             moved == position + (window_size - overlap)
             next_position ==
                 IF moved < total /\ (total - moved) < overlap
                 THEN (IF total - window_size < 0 THEN 0 ELSE total - window_size)
                 ELSE moved
             rest == WindowLoop(all_docs, window_size, overlap, next_position,
                                window_count + Len(emitted), fuel - 1)
         IN  [windows |-> emitted \o rest.windows, done |-> rest.done]

lazy_load(all_docs, window_size, overlap) ==
    IF all_docs = <<>> THEN [windows |-> <<>>, done |-> TRUE]
    ELSE WindowLoop(all_docs, window_size, overlap, 0, 0, MaxWindows)

\* Mutant: the rebuild starts right at the new data.
rebuild_start_at_start(start_no, window_size) == start_no

\* Mutant: the rebuild starts at the first record.
rebuild_start_zero(start_no, window_size) == 0

\* IncrementalThreadAwareLoader: rebuild_start = max(0, start_no - window_size)
rebuild_start(start_no, window_size) ==
    IF start_no - window_size > 0 THEN start_no - window_size ELSE 0

incremental_lazy_load(source, start_no, window_size, overlap) ==
    lazy_load(incremental_load(source, rebuild_start(start_no, window_size)),
              window_size, overlap)

\* ------------------------------------------------------------------ update_index

\* load_metadata: the file's content, or the default when there is no file.
load_metadata(file) ==
    IF file.exists
    THEN [last_processed_no |-> file.last_processed_no, last_update |-> file.last_update]
    ELSE [last_processed_no |-> 0, last_update |-> 0]

\* save_metadata: last_update is set to the current time, later than any
\* time saved before.
save_metadata(file, last_processed_no) ==
    [exists |-> TRUE, last_processed_no |-> last_processed_no,
     last_update |-> file.last_update + 1]

\* latest_no: db.query(func.max(Res.no)).scalar() or 0
latest_res_no(source) == IF source = {} THEN 0 ELSE Max(source)

\* Mutant: the checkpoint record itself counts as new (Res.no >= ...).
new_res_count_from(source, last_processed_no) ==
    Cardinality({n \in source : n >= last_processed_no})

\* new_res_count: db.query(Res).filter(Res.no > last_processed_no).count()
new_res_count(source, last_processed_no) ==
    Cardinality({n \in source : n > last_processed_no})

UpdateReturned ==
    /\ u_pc' = "idle"
    /\ u_start_no' = 0
    /\ latest_no' = 0
    /\ parent_docs' = <<>>
    /\ u_i' = 0
    /\ u_skipped' = {}

\* update_index, lines 128-142: nothing above the checkpoint, return.
UpdateIndexNoNew ==
    /\ u_pc = "idle"
    /\ new_res_count(res, load_metadata(index_metadata).last_processed_no) = 0
    /\ UpdateReturned
    /\ update_result' = "up_to_date"
    /\ UNCHANGED <<res, sync_vars, index_metadata, index_docs, seq_call, chunk_vars, rag_vars, run_vars, ext_vars>>

\* update_index, lines 128-146: records above the checkpoint, go on.
UpdateIndexBegin ==
    /\ u_pc = "idle"
    /\ u_start_no' = load_metadata(index_metadata).last_processed_no
    /\ latest_no' = latest_res_no(res)
    /\ new_res_count(res, u_start_no') # 0
    /\ u_pc' = "loading"
    /\ UNCHANGED <<res, sync_vars, index_metadata, index_docs, parent_docs, u_i,
                   u_skipped, update_result, seq_call, chunk_vars, rag_vars, run_vars, ext_vars>>

\* update_index, lines 151-175: build the windows from the rebuild start on.
UpdateIndexLoad ==
    /\ u_pc = "loading"
    /\ LET loaded == incremental_lazy_load(res, u_start_no, index_window_size, index_overlap)
       IN  /\ loaded.done
           /\ parent_docs' = loaded.windows
    /\ u_pc' = "adding"
    /\ UNCHANGED <<res, sync_vars, index_metadata, index_docs, u_start_no, latest_no,
                   u_i, u_skipped, update_result, seq_call, chunk_vars, rag_vars, run_vars, ext_vars>>

\* parent_docs[i : i + batch_size]
Batch(docs, i, size) ==
    SubSeq(docs, i + 1, IF i + size < Len(docs) THEN i + size ELSE Len(docs))

\* retriever.add_documents(batch): every parent document is stored under a
\* newly generated id.
add_documents(store, batch) == store \o batch

\* update_index, lines 183-191: one batch added.
UpdateIndexAddBatch ==
    /\ u_pc = "adding"
    /\ u_i < Len(parent_docs)
    /\ index_docs' = add_documents(index_docs, Batch(parent_docs, u_i, index_batch_size))
    /\ u_i' = u_i + index_batch_size
    /\ UNCHANGED <<res, sync_vars, index_metadata, u_pc, u_start_no, latest_no,
                   parent_docs, u_skipped, update_result, seq_call, chunk_vars, rag_vars, run_vars, ext_vars>>

\* update_index, lines 193-197: add_documents raised, the batch is skipped.
UpdateIndexSkipBatch ==
    /\ u_pc = "adding"
    /\ u_i < Len(parent_docs)
    /\ u_skipped' = u_skipped \cup {(u_i \div index_batch_size) + 1}
    /\ u_i' = u_i + index_batch_size
    /\ UNCHANGED <<res, sync_vars, index_metadata, index_docs, u_pc, u_start_no,
                   latest_no, parent_docs, update_result, seq_call, chunk_vars, rag_vars, run_vars, ext_vars>>

\* update_index, lines 199-204: the checkpoint is written.
UpdateIndexFinish ==
    /\ u_pc = "adding"
    /\ ~(u_i < Len(parent_docs))
    /\ index_metadata' = save_metadata(index_metadata, latest_no)
    /\ UpdateReturned
    /\ update_result' = "completed"
    /\ UNCHANGED <<res, sync_vars, index_docs, seq_call, chunk_vars, rag_vars, run_vars, ext_vars>>

\* ------------------------------------------------------------------ direct calls

NoCall == [called |-> FALSE]

\* create_sequential_relationships(post, source_session, rag_session,
\* window_size) called for the Post of record `no`, already flushed, on the
\* graph store as it stands.
CallCreateSequential ==
    /\ s_pc = "idle"
    /\ \E no \in res, window_size \in 1..SeqMaxWindow :
          LET existing == PostsByNo(posts, no)
              post == IF existing # {} THEN CHOOSE p \in existing : TRUE
                      ELSE Post(NewPostId(posts), no)
          IN  seq_call' = [called |-> TRUE, post |-> post, window_size |-> window_size,
                           rels |-> create_sequential_relationships(
                                        post, res, posts \cup {post}, window_size)]
    /\ UNCHANGED <<res, sync_vars, index_vars, chunk_vars, rag_vars, run_vars, ext_vars>>

\* ------------------------------------------------------------------ chunkers

\* list[i:j] of Python: negative indexes count from the end, indexes beyond
\* the list are clipped.
PySlice(s, i, j) ==
    LET clip(k) == IF k < 0 THEN (IF Len(s) + k < 0 THEN 0 ELSE Len(s) + k)
                   ELSE (IF k > Len(s) THEN Len(s) ELSE k)
    IN  SubSeq(s, clip(i) + 1, clip(j))

\* Mutant: the window moves past its own end, leaving one record out.
stride_skips(window_size, overlap) == window_size + 1

\* ThreadAwareLoader.__init__: self.stride = window_size - overlap
stride(window_size, overlap) == window_size - overlap

\* ThreadAwareLoader(window_size, overlap): the loader object.
ThreadAwareLoader(window_size, overlap) ==
    [incremental |-> FALSE, start_no |-> 0, rebuild_start |-> 0,
     window_size |-> window_size, overlap |-> overlap,
     stride |-> stride(window_size, overlap)]

\* IncrementalThreadAwareLoader(start_no, window_size, overlap)
IncrementalThreadAwareLoader(start_no, window_size, overlap) ==
    [incremental |-> TRUE, start_no |-> start_no,
     rebuild_start |-> rebuild_start(start_no, window_size),
     window_size |-> window_size, overlap |-> overlap,
     stride |-> stride(window_size, overlap)]

\* PostgresResLoader.lazy_load: the documents of all records (no > 0), in
\* ascending order.
base_load(source) == OrderAsc({n \in source : n > 0})

\* list(self.base_loader.lazy_load()) for the loader object.
LoadAllDocs(ldr, source) ==
    IF ldr.incremental THEN incremental_load(source, ldr.rebuild_start)
    ELSE base_load(source)

\* Mutant: the window counter of an earlier run is carried on.
FirstWindowCount_carried(count) == count

\* window_count = 0 at the start of every run.
FirstWindowCount(count) == 0

\* The lazy_load generator is started: all documents are read, an empty list
\* ends the run at once.
LoaderStart ==
    /\ t_pc = "init"
    /\ t_all_docs' = LoadAllDocs(t_loader, res)
    /\ t_pc' = IF t_all_docs' = <<>> THEN "done" ELSE "running"
    /\ t_position' = 0
    /\ t_window_count' = FirstWindowCount(t_window_count)
    /\ t_yielded' = <<>>
    /\ UNCHANGED <<res, sync_vars, index_vars, seq_call, t_loader, t_previous, cw_call, rag_vars, run_vars, ext_vars>>

\* One round of the while loop (loader.py 100-147): the window is yielded
\* when it has members, the position moves by the stride and snaps back when
\* fewer than `overlap` documents remain.  The first MaxEmitted windows of a
\* run are recorded and counted; a run that goes on after them is followed
\* by its position alone, down to position -MaxEmitted.
LoaderStep ==
    /\ t_pc = "running"
    /\ t_position < Len(t_all_docs)
    /\ t_position > 0 - MaxEmitted
    /\ LET total == Len(t_all_docs)
           end_position == Min({t_position + t_loader.window_size, total})
           window_docs == PySlice(t_all_docs, t_position, end_position)
           moved == t_position + t_loader.stride
       IN  /\ IF window_docs # <<>> /\ Len(t_yielded) < MaxEmitted
              THEN /\ t_yielded' = Append(t_yielded,
                                          ParentDocument(window_docs, t_window_count))
                   /\ t_window_count' = t_window_count + 1
              ELSE UNCHANGED <<t_yielded, t_window_count>>
           /\ t_position' =
                 IF moved < total /\ (total - moved) < t_loader.overlap
                 THEN Max({0, total - t_loader.window_size})
                 ELSE moved
    /\ UNCHANGED <<res, sync_vars, index_vars, seq_call, t_loader, t_pc, t_all_docs,
                   t_previous, cw_call, rag_vars, run_vars, ext_vars>>

\* The while condition is false: the generator is exhausted.
LoaderExhausted ==
    /\ t_pc = "running"
    /\ ~(t_position < Len(t_all_docs))
    /\ t_pc' = "done"
    /\ UNCHANGED <<res, sync_vars, index_vars, seq_call, t_loader, t_all_docs, t_position,
                   t_window_count, t_yielded, t_previous, cw_call, rag_vars, run_vars, ext_vars>>

NoRun == [ran |-> FALSE]

\* lazy_load is called a second time on the same loader object.
LoaderAgain ==
    /\ t_pc = "done"
    /\ t_previous = NoRun
    /\ t_previous' = [ran |-> TRUE, all_docs |-> t_all_docs, yielded |-> t_yielded]
    /\ t_pc' = "init"
    /\ UNCHANGED <<res, sync_vars, index_vars, seq_call, t_loader, t_all_docs, t_position,
                   t_window_count, t_yielded, cw_call, rag_vars, run_vars, ext_vars>>

\* The window Document of SlidingWindowChunker.
WindowDocument(window_docs) ==
    [start_no |-> window_docs[1],
     end_no |-> window_docs[Len(window_docs)],
     post_count |-> Len(window_docs),
     members |-> window_docs]

\* SlidingWindowChunker.create_windows: range(0, len, step) raises ValueError
\* for step 0 and is empty for a negative step.
create_windows(documents, window_size, overlap) ==
    IF documents = <<>> THEN [called |-> TRUE, raised |-> FALSE, windows |-> <<>>]
    ELSE LET step == window_size - overlap
         IN  IF step = 0 THEN [called |-> TRUE, raised |-> TRUE, windows |-> <<>>]
             ELSE IF step < 0 THEN [called |-> TRUE, raised |-> FALSE, windows |-> <<>>]
             ELSE [called |-> TRUE, raised |-> FALSE,
                   windows |->
                     [k \in 1..(((Len(documents) - 1) \div step) + 1) |->
                        WindowDocument(PySlice(documents, (k - 1) * step,
                                               (k - 1) * step + window_size))]]

\* SlidingWindowChunker(window_size, overlap).create_windows(documents) over
\* the documents of the source.
CallCreateWindows ==
    /\ cw_call' = create_windows(base_load(res), t_loader.window_size, t_loader.overlap)
    /\ UNCHANGED <<res, sync_vars, index_vars, seq_call, loader_vars, rag_vars, run_vars, ext_vars>>

\* ------------------------------------------------------------------ graph traversal

\* A row of the CTE graph_traversal: the post, its depth and the path to it.
TraversalRow(post_id, depth, path) == [post_id |-> post_id, depth |-> depth, path |-> path]

\* {rel_filter}: no filter when relationship_types is None or empty.
TypeSelected(rel, relationship_types) ==
    relationship_types = {} \/ rel.relationship_type \in relationship_types

\* The relationships joined to a row: r.source_node_id = gt.post_id OR
\* r.target_node_id = gt.post_id, of a selected type.
JoinedRelationships(row, rels, relationship_types) ==
    {i \in 1..Len(rels) :
        /\ rels[i].source_node_id = row.post_id \/ rels[i].target_node_id = row.post_id
        /\ TypeSelected(rels[i], relationship_types)}

\* Mutant: edges are followed from source to target only.
OtherEnd_forward(rel, post_id) == rel.target_node_id

\* CASE WHEN r.source_node_id = gt.post_id THEN r.target_node_id
\* ELSE r.source_node_id END
OtherEnd(rel, post_id) ==
    IF rel.source_node_id = post_id THEN rel.target_node_id ELSE rel.source_node_id

\* The base case: one row per post named in start_ids.
BaseRows(visible, start_ids) ==
    LET rows == {TraversalRow(p.post_id, 0, <<p.post_id>>) :
                    p \in {q \in visible : q.post_id \in start_ids}}
    IN  [row \in rows |-> 1]

\* Mutant: the path test is left out.
NotOnPath_off(post_id, path) == TRUE

\* NOT p.post_id = ANY(gt.path)
NotOnPath(post_id, path) == post_id \notin Range(path)

\* The recursive case applied to the working table: UNION ALL keeps one row
\* per joined relationship, so a row comes as often as its parent row times
\* the relationships that lead from the parent to it.
RecursiveRows(working, visible, rels, relationship_types, max_depth) ==
    LET parents == {row \in DOMAIN working : row.depth < max_depth}
        reached(row) ==
            {p \in visible :
                /\ \E i \in JoinedRelationships(row, rels, relationship_types) :
                      OtherEnd(rels[i], row.post_id) = p.post_id
                /\ NotOnPath(p.post_id, row.path)}
        child(row, p) == TraversalRow(p.post_id, row.depth + 1, Append(row.path, p.post_id))
        times(row, p) ==
            working[row] *
            Cardinality({i \in JoinedRelationships(row, rels, relationship_types) :
                            OtherEnd(rels[i], row.post_id) = p.post_id})
        pairs == UNION {{<<row, p>> : p \in reached(row)} : row \in parents}
        rows == {child(pr[1], pr[2]) : pr \in pairs}
    IN  [nr \in rows |->
            LET pr == CHOOSE x \in pairs : child(x[1], x[2]) = nr
            IN  times(pr[1], pr[2])]

\* WITH RECURSIVE: the recursive case is applied to the rows of the last
\* round until a round gives no row. done is FALSE when rounds are left
\* after MaxRounds.
RECURSIVE TraverseFrom(_, _, _, _, _, _, _, _)
TraverseFrom(working, table, rounds, visible, rels, relationship_types, max_depth, fuel) ==
    IF DOMAIN working = {} THEN [rows |-> table, rounds |-> rounds, done |-> TRUE]
    ELSE IF fuel = 0 THEN [rows |-> table, rounds |-> rounds, done |-> FALSE]
    ELSE LET next == RecursiveRows(working, visible, rels, relationship_types, max_depth)
         IN  TraverseFrom(next, table (+) next, rounds + 1, visible, rels,
                          relationship_types, max_depth, fuel - 1)

\* ORDER BY source_post_no
OrderPosts(found) ==
    [i \in 1..Cardinality(found) |->
        CHOOSE p \in found :
            Cardinality({q \in found : q.source_post_no < p.source_post_no}) = i - 1]

\* get_related_posts_recursive: the CTE, then SELECT DISTINCT ... ORDER BY
\* source_post_no LIMIT :max_nodes.
get_related_posts_recursive(visible, rels, start_ids, relationship_types, max_depth, max_nodes) ==
    IF start_ids = {}
    THEN [done |-> TRUE, rounds |-> 0, rows |-> EmptyBag, posts |-> <<>>]
    ELSE LET base == BaseRows(visible, start_ids)
             cte == TraverseFrom(base, base, 0, visible, rels, relationship_types,
                                 max_depth, MaxRounds)
             found == {p \in visible : \E row \in DOMAIN cte.rows : row.post_id = p.post_id}
         IN  [done |-> cte.done, rounds |-> cte.rounds, rows |-> cte.rows,
              posts |-> Limit(OrderPosts(found), max_nodes)]

\* Mutant: the two lists are joined without the test on post_id.
Deduplicate_off(list) == list

\* The loop over reply_posts + sequential_posts that keeps the first
\* occurrence of every post_id.
RECURSIVE Deduplicate(_)
Deduplicate(list) ==
    IF list = <<>> THEN <<>>
    ELSE LET front == Deduplicate(SubSeq(list, 1, Len(list) - 1))
             last == list[Len(list)]
         IN  IF \E i \in 1..Len(front) : front[i].post_id = last.post_id
             THEN front ELSE Append(front, last)

\* list.sort(key=lambda p: p.source_post_no): a stable sort.
SortByNo(list) ==
    LET before(i, j) ==
            \/ list[i].source_post_no < list[j].source_post_no
            \/ list[i].source_post_no = list[j].source_post_no /\ i < j
    IN  [k \in 1..Len(list) |->
            list[CHOOSE j \in 1..Len(list) :
                    Cardinality({i \in 1..Len(list) : before(i, j)}) = k - 1]]

\* select(Relationship).where(source_node_id.in_(ids), target_node_id.in_(ids))
RelationshipsAmong(rels, ids) ==
    SelectSeq(rels, LAMBDA r : r.source_node_id \in ids /\ r.target_node_id \in ids)

\* get_conversation_context
get_conversation_context(visible, rels, start_ids, max_depth, max_nodes) ==
    LET reply_posts == get_related_posts_recursive(visible, rels, start_ids,
                           {"IS_REPLY_TO"}, max_depth, max_nodes).posts
        sequential_posts == get_related_posts_recursive(visible, rels, start_ids,
                                {"IS_SEQUENTIAL_TO"}, max_depth, max_nodes).posts
        all_posts == SortByNo(Deduplicate(reply_posts \o sequential_posts))
        all_post_ids == {all_posts[i].post_id : i \in 1..Len(all_posts)}
        found == IF all_post_ids # {} THEN RelationshipsAmong(rels, all_post_ids) ELSE <<>>
    IN  [posts |-> all_posts,
         relationships |-> found,
         stats |-> [total_posts |-> Len(all_posts),
                    reply_posts |-> Len(reply_posts),
                    sequential_posts |-> Len(sequential_posts),
                    total_relationships |-> Len(found)]]

\* start_post_ids, also ids no Post carries.
StartIdSets == {ids \in SUBSET (1..GraphMaxPosts) : Cardinality(ids) <= GraphMaxSeeds}

\* relationship_types: None, or a list of types.
TypeFilters == SUBSET {"IS_REPLY_TO", "IS_SEQUENTIAL_TO"}

\* GraphTraverser(max_depth, max_nodes).get_related_posts_recursive(session,
\* start_post_ids, relationship_types) on the graph store as it stands.  The
\* methods read the store and keep nothing, so one call is followed at a time.
CallGetRelatedPosts ==
    /\ g_call = NoCall
    /\ \E start_ids \in StartIdSets, types \in TypeFilters,
          max_depth \in 0..GraphMaxDepth, max_nodes \in 0..GraphMaxNodes :
          g_call' = [called |-> TRUE, method |-> "get_related_posts_recursive",
                     start_ids |-> start_ids, relationship_types |-> types,
                     max_depth |-> max_depth, max_nodes |-> max_nodes,
                     result |-> get_related_posts_recursive(
                                    posts, relationships, start_ids, types,
                                    max_depth, max_nodes)]
    /\ UNCHANGED <<res, sync_vars, index_vars, seq_call, chunk_vars, run_vars, ext_vars>>

\* GraphTraverser(max_depth, max_nodes).get_conversation_context(session,
\* start_post_ids) on the graph store as it stands.
CallGetConversationContext ==
    /\ g_call = NoCall
    /\ \E start_ids \in StartIdSets,
          max_depth \in 0..GraphMaxDepth, max_nodes \in 0..GraphMaxNodes :
          g_call' = [called |-> TRUE, method |-> "get_conversation_context",
                     start_ids |-> start_ids, relationship_types |-> {},
                     max_depth |-> max_depth, max_nodes |-> max_nodes,
                     result |-> get_conversation_context(
                                    posts, relationships, start_ids,
                                    max_depth, max_nodes)]
    /\ UNCHANGED <<res, sync_vars, index_vars, seq_call, chunk_vars, run_vars, ext_vars>>

\* No chunker is in use.
ChunkersIdle ==
    /\ t_loader = ThreadAwareLoader(default_window_size, default_overlap)
    /\ t_pc = "off"
    /\ t_all_docs = <<>>
    /\ t_position = 0
    /\ t_window_count = 0
    /\ t_yielded = <<>>
    /\ t_previous = NoRun
    /\ cw_call = NoCall

\* ------------------------------------------------------------------ specification

vars == <<res, sync_vars, index_vars, seq_call, chunk_vars, rag_vars, run_vars, ext_vars>>

Init ==
    /\ res = {}
    /\ posts = {}
    /\ relationships = <<>>
    /\ s_pc = "idle"
    /\ last_no = 0
    /\ new_posts = <<>>
    /\ processed_count = 0
    /\ s_posts = {}
    /\ s_rels = <<>>
    /\ s_warned = {}
    /\ s_prompt = NoPrompt
    /\ sync_result = [kind |-> "none", count |-> 0, failed_no |-> 0]
    /\ index_metadata = [exists |-> FALSE, last_processed_no |-> 0, last_update |-> 0]
    /\ index_docs = <<>>
    /\ u_pc = "idle"
    /\ u_start_no = 0
    /\ latest_no = 0
    /\ parent_docs = <<>>
    /\ u_i = 0
    /\ u_skipped = {}
    /\ update_result = "none"
    /\ seq_call = NoCall
    /\ ChunkersIdle
    /\ g_call = NoCall
    /\ run = NotStarted
    /\ ExtIdle

\* One run of the synchronizer at a time (pipeline.py).
SyncNext ==
    \/ SyncBatchNoNew
    \/ SyncBatchBegin
    \/ ProcessPost
    \/ ProcessPostFail
    \/ SyncBatchCommit
    \/ SyncBatchCommitFail

\* One run of the index update at a time (update_index.py).
IndexNext ==
    \/ UpdateIndexNoNew
    \/ UpdateIndexBegin
    \/ UpdateIndexLoad
    \/ UpdateIndexAddBatch
    \/ UpdateIndexSkipBatch
    \/ UpdateIndexFinish

\* The synchronizer over a growing source.
NextSync == AppendRecord \/ SyncNext

SpecSync == Init /\ [][NextSync]_vars

\* The index update over a growing source.
NextIndex == AppendRecord \/ IndexNext

SpecIndex == Init /\ [][NextIndex]_vars

\* create_sequential_relationships applied to any graph store over any
\* source: every set of records up to SeqMaxNo, with a Post for any of them.
InitSeq ==
    /\ res \in SUBSET (1..SeqMaxNo)
    /\ \E synced \in SUBSET res :
          posts = {Post(Cardinality({m \in synced : m >= n}), n) : n \in synced}
    /\ relationships = <<>>
    /\ s_pc = "idle"
    /\ last_no = 0
    /\ new_posts = <<>>
    /\ processed_count = 0
    /\ s_posts = {}
    /\ s_rels = <<>>
    /\ s_warned = {}
    /\ s_prompt = NoPrompt
    /\ sync_result = [kind |-> "none", count |-> 0, failed_no |-> 0]
    /\ index_metadata = [exists |-> FALSE, last_processed_no |-> 0, last_update |-> 0]
    /\ index_docs = <<>>
    /\ u_pc = "idle"
    /\ u_start_no = 0
    /\ latest_no = 0
    /\ parent_docs = <<>>
    /\ u_i = 0
    /\ u_skipped = {}
    /\ update_result = "none"
    /\ seq_call = NoCall
    /\ ChunkersIdle
    /\ g_call = NoCall
    /\ run = NotStarted
    /\ ExtIdle

NextSeq == CallCreateSequential

SpecSeq == InitSeq /\ [][NextSeq]_vars

\* Both tools running side by side over the same source.
Next == AppendRecordJoint \/ SyncNext \/ IndexNext

Spec == Init /\ [][Next]_vars

\* The chunkers on their own, over a source that does not change: every
\* small source with every small loader, and the two runs of the defaults
\* over 130 records and, incrementally from checkpoint 130, over 135.
ChunkLoaders ==
    {ThreadAwareLoader(w, o) : w \in 1..ChunkMaxWindow, o \in 0..ChunkMaxOverlap} \cup
    {IncrementalThreadAwareLoader(c[1], c[2], c[3]) :
        c \in (0..ChunkMaxNo) \X (1..ChunkMaxWindow) \X (0..ChunkMaxOverlap)}

InitChunk ==
    /\ \/ res \in SUBSET (1..ChunkMaxNo) /\ t_loader \in ChunkLoaders
       \/ /\ res = 1..130
          /\ t_loader = ThreadAwareLoader(default_window_size, default_overlap)
       \/ /\ res = 1..135
          /\ t_loader = IncrementalThreadAwareLoader(130, default_window_size,
                                                     default_overlap)
    /\ posts = {}
    /\ relationships = <<>>
    /\ s_pc = "idle"
    /\ last_no = 0
    /\ new_posts = <<>>
    /\ processed_count = 0
    /\ s_posts = {}
    /\ s_rels = <<>>
    /\ s_warned = {}
    /\ s_prompt = NoPrompt
    /\ sync_result = [kind |-> "none", count |-> 0, failed_no |-> 0]
    /\ index_metadata = [exists |-> FALSE, last_processed_no |-> 0, last_update |-> 0]
    /\ index_docs = <<>>
    /\ u_pc = "idle"
    /\ u_start_no = 0
    /\ latest_no = 0
    /\ parent_docs = <<>>
    /\ u_i = 0
    /\ u_skipped = {}
    /\ update_result = "none"
    /\ seq_call = NoCall
    /\ t_pc = "init"
    /\ t_all_docs = <<>>
    /\ t_position = 0
    /\ t_window_count = 0
    /\ t_yielded = <<>>
    /\ t_previous = NoRun
    /\ cw_call = NoCall
    /\ g_call = NoCall
    /\ run = NotStarted
    /\ ExtIdle

LoaderNext == LoaderStart \/ LoaderStep \/ LoaderExhausted \/ LoaderAgain

NextChunk == LoaderNext \/ CallCreateWindows

SpecChunk == InitChunk /\ [][NextChunk]_vars

\* The generator is driven by a consumer that keeps asking for the next
\* window (`for doc in parent_loader.lazy_load()`).
SpecChunkLive == SpecChunk /\ WF_vars(LoaderStep) /\ WF_vars(LoaderExhausted)

\* The traverser on its own, over a graph store that does not change: every
\* small graph, with cycles, parallel edges and self-loops among them.
\* Record 2k-1 has the Post with id GraphMaxPosts + 1 - k, so that the order
\* of the ids is not the order of the numbers.
GraphPost(k) == Post(GraphMaxPosts + 1 - k, 2 * k - 1)

EdgeCode(e) ==
    (e[1] * (GraphMaxPosts + 1) + e[2]) * 2 + (IF e[3] = "IS_REPLY_TO" THEN 0 ELSE 1)

\* The lists of at most GraphMaxEdges relationships between the given posts,
\* one list per multiset.
GraphEdgeLists(rows) ==
    LET kinds == PostIds(rows) \X PostIds(rows) \X {"IS_REPLY_TO", "IS_SEQUENTIAL_TO"}
    IN  {s \in UNION {[1..n -> kinds] : n \in 0..GraphMaxEdges} :
            \A i, j \in 1..Len(s) : i < j => EdgeCode(s[i]) <= EdgeCode(s[j])}

GraphRelationship(rows, e) ==
    Relationship(e[1], e[2], e[3],
                 IF e[3] = "IS_REPLY_TO" THEN [confidence |-> "0.8"]
                 ELSE [distance |-> NoOfId(rows, e[2]) - NoOfId(rows, e[1])])

InitGraph ==
    /\ res = {}
    /\ \E K \in SUBSET (1..GraphMaxPosts) :
          /\ posts = {GraphPost(k) : k \in K}
          /\ \E edges \in GraphEdgeLists(posts) :
                relationships = [i \in 1..Len(edges) |-> GraphRelationship(posts, edges[i])]
    /\ s_pc = "idle"
    /\ last_no = 0
    /\ new_posts = <<>>
    /\ processed_count = 0
    /\ s_posts = {}
    /\ s_rels = <<>>
    /\ s_warned = {}
    /\ s_prompt = NoPrompt
    /\ sync_result = [kind |-> "none", count |-> 0, failed_no |-> 0]
    /\ index_metadata = [exists |-> FALSE, last_processed_no |-> 0, last_update |-> 0]
    /\ index_docs = <<>>
    /\ u_pc = "idle"
    /\ u_start_no = 0
    /\ latest_no = 0
    /\ parent_docs = <<>>
    /\ u_i = 0
    /\ u_skipped = {}
    /\ update_result = "none"
    /\ seq_call = NoCall
    /\ ChunkersIdle
    /\ g_call = NoCall
    /\ run = NotStarted
    /\ ExtIdle

NextGraph == CallGetRelatedPosts \/ CallGetConversationContext

SpecGraph == InitGraph /\ [][NextGraph]_vars

\* The synchronizer over a backlog: any records up to BacklogMaxNo are in
\* the source from the start and none arrives.
InitBacklog ==
    /\ res \in (SUBSET (1..BacklogMaxNo)) \ {{}}
    /\ posts = {}
    /\ relationships = <<>>
    /\ s_pc = "idle"
    /\ last_no = 0
    /\ new_posts = <<>>
    /\ processed_count = 0
    /\ s_posts = {}
    /\ s_rels = <<>>
    /\ s_warned = {}
    /\ s_prompt = NoPrompt
    /\ sync_result = [kind |-> "none", count |-> 0, failed_no |-> 0]
    /\ index_metadata = [exists |-> FALSE, last_processed_no |-> 0, last_update |-> 0]
    /\ index_docs = <<>>
    /\ u_pc = "idle"
    /\ u_start_no = 0
    /\ latest_no = 0
    /\ parent_docs = <<>>
    /\ u_i = 0
    /\ u_skipped = {}
    /\ update_result = "none"
    /\ seq_call = NoCall
    /\ ChunkersIdle
    /\ g_call = NoCall
    /\ run = NotStarted
    /\ ExtIdle

NextBacklog == SyncNext

SpecBacklog == InitBacklog /\ [][NextBacklog]_vars

\* sync_data.py: one run of the tool, in either mode, over a growing source.
NextRun ==
    \/ AppendRecordJoint
    \/ StartSyncAll
    \/ StartContinuous
    \/ CallSyncBatch
    \/ RunSyncBatchNoNew
    \/ RunSyncBatchBegin
    \/ ProcessPost
    \/ RunProcessPostFail
    \/ SyncBatchCommit
    \/ RunSyncBatchCommitFail
    \/ SyncAllReturned
    \/ SyncAllRaised
    \/ ContinuousReturned
    \/ ContinuousRaised
    \/ Wake
    \/ InterruptInTry
    \/ InterruptInBatch
    \/ InterruptInHandler

SpecRun == Init /\ [][NextRun]_vars

\* The interpreter keeps executing the tool: every step of the program that
\* can be taken is taken in the end. Failures, interrupts and the arrival of
\* records are not forced.
SpecRunLive ==
    /\ SpecRun
    /\ WF_vars(CallSyncBatch)
    /\ WF_vars(RunSyncBatchNoNew)
    /\ WF_vars(RunSyncBatchBegin)
    /\ WF_vars(ProcessPost)
    /\ WF_vars(SyncBatchCommit)
    /\ WF_vars(SyncAllReturned)
    /\ WF_vars(SyncAllRaised)
    /\ WF_vars(ContinuousReturned)
    /\ WF_vars(ContinuousRaised)
    /\ WF_vars(Wake)

AppendRecordScan == AppendRecordUpTo(ScanMaxNo)

\* A paginated scan over a growing source.
NextScan == AppendRecordScan \/ ScanStart \/ ScanPage

SpecScan == Init /\ [][NextScan]_vars

\* Two synchronizers running sync_batch against the same stores.
NextTwo ==
    \/ AppendRecordJoint
    \/ SyncBatchNoNew
    \/ SyncBatchBegin
    \/ TwoProcessPost
    \/ TwoProcessPostConflict
    \/ SyncBatchCommit
    \/ OtherBegin
    \/ OtherProcessPost
    \/ OtherCommit

SpecTwo == Init /\ [][NextTwo]_vars

\* POST /ask: one question answered by streaming.
NextStream ==
    \/ AskStart
    \/ AskStartFails
    \/ LlmNewToken
    \/ LlmEnd
    \/ LlmFail
    \/ TaskReturns
    \/ TaskFailsLate
    \/ GetToken
    \/ GetEndSignal
    \/ AwaitTask

SpecStream == Init /\ [][NextStream]_vars

\* The event loop keeps running the generators: a queue.get() that can
\* return and an await that can come back do so in the end, and a call that
\* is ending ends. The LLM is not forced to produce anything.
SpecStreamLive ==
    /\ SpecStream
    /\ WF_vars(GetToken)
    /\ WF_vars(GetEndSignal)
    /\ WF_vars(AwaitTask)
    /\ WF_vars(TaskReturns \/ TaskFailsLate)

\* The application serving GET requests while records arrive and the
\* synchronizer is at work on the graph store.
NextApi == AppendRecord \/ SyncNext \/ GetRequest

SpecApi == Init /\ [][NextApi]_vars

\* ------------------------------------------------------------------ claims

\* The watermark: what get_last_processed_no returns on the committed rows.
Watermark == get_last_processed_no(posts)

PostNos(rows) == {p.source_post_no : p \in rows}

\* C1: when a record of a batch raises, the batch ends with no row of it
\* persisted (also none of the records handled before the failing one), the
\* watermark is the one read before the batch, and sync_batch raises.  A
\* batch that ends before all its records were handled ended by an exception.
C1_FailedBatchRollsBack ==
    [][(s_pc = "running" /\ s_pc' = "idle" /\ processed_count < Len(new_posts))
          => /\ posts' = posts
             /\ relationships' = relationships
             /\ get_last_processed_no(posts') = last_no
             /\ sync_result'.kind = "raised"]_vars

\* C1 witness: a batch failed at a record after an earlier record of the same
\* batch had been handled, over a graph store that already held rows.
C1_Witness ==
    /\ s_pc = "idle"
    /\ sync_result.kind = "raised"
    /\ posts # {}
    /\ \E n \in res : Watermark < n /\ n < sync_result.failed_no

\* C2: the committed Posts are exactly the source records up to the
\* watermark: no gap below it, no Post above it.
C2_NodesAreRecordsUpToWatermark ==
    PostNos(posts) = {n \in res : n <= Watermark}

\* C2 witness: after a failed batch, with a Post committed over a source with
\* a gap below the watermark and a record still above it.
C2_Witness ==
    /\ sync_result.kind = "raised"
    /\ posts # {}
    /\ \E n \in 1..MaxNo : n \notin res /\ n < Watermark
    /\ \E n \in res : n > Watermark

\* C3: no two Post rows, committed or flushed, carry the same record number,
\* and a running batch holds no record whose Post is committed.
C3_OneNodePerRecord ==
    /\ \A p, q \in posts \cup s_posts :
          p.source_post_no = q.source_post_no => p = q
    /\ \A i \in 1..Len(new_posts) : new_posts[i] \notin PostNos(posts)

\* C3 witness: a batch retried after a failure, running over committed rows,
\* with a record of it already flushed.
C3_Witness ==
    /\ s_pc = "running"
    /\ sync_result.kind = "raised"
    /\ posts # {}
    /\ s_posts # {}

\* The index checkpoint: last_processed_no as update_index reads it.
Checkpoint == load_metadata(index_metadata).last_processed_no

NoRecordAboveWatermark == \A n \in res : n <= Watermark

NoRecordAboveCheckpoint == \A n \in res : n <= Checkpoint

\* C4: a sync_batch call made while no record is above the watermark returns
\* 0 and leaves Posts, Relationships and the watermark as they are; an
\* update_index call that finds no record above the checkpoint returns, adds
\* no window and leaves the checkpoint file as it is.  The state after the
\* call is the state before it, so repeating the call changes nothing either.
C4_NoNewDataIsNoOp ==
    [][/\ (s_pc = "idle" /\ NoRecordAboveWatermark /\ SyncNext)
            => /\ sync_result' = Returned(0)
               /\ posts' = posts
               /\ relationships' = relationships
               /\ s_pc' = "idle"
       /\ (u_pc = "idle" /\ NoRecordAboveCheckpoint /\ IndexNext)
            => /\ update_result' = "up_to_date"
               /\ index_docs' = index_docs
               /\ index_metadata' = index_metadata
               /\ u_pc' = "idle"]_vars

\* C4 witness: both calls have returned without work over a synchronized,
\* indexed source.
C4_Witness ==
    /\ res # {}
    /\ NoRecordAboveWatermark
    /\ NoRecordAboveCheckpoint
    /\ sync_result = Returned(0)
    /\ update_result = "up_to_date"
    /\ posts # {}
    /\ index_docs # <<>>

\* The batch (numbered from 1) that holds the k-th loaded window.
BatchOf(k) == ((k - 1) \div index_batch_size) + 1

\* C5: the checkpoint written at the end of an update_index run covers a
\* record new in that run only if no batch holding a window with that record
\* was skipped.
C5_CheckpointCoversOnlyIndexed ==
    [][(u_pc = "adding" /\ u_pc' = "idle")
          => \A k \in 1..Len(parent_docs) :
                BatchOf(k) \in u_skipped
                  => \A n \in Range(parent_docs[k].res_details) :
                        n > u_start_no
                          => load_metadata(index_metadata').last_processed_no < n]_vars

\* C6: neither the graph watermark nor the index checkpoint ever decreases.
C6_WatermarksNeverDecrease ==
    [][/\ get_last_processed_no(posts') >= get_last_processed_no(posts)
       /\ load_metadata(index_metadata').last_processed_no
            >= load_metadata(index_metadata).last_processed_no]_vars

\* C6 witness: the watermark has advanced and a later batch has failed; the
\* checkpoint has advanced and a later run is adding windows.
C6_Witness ==
    /\ Watermark >= 1
    /\ Checkpoint >= 1
    /\ sync_result.kind = "raised"
    /\ u_pc = "adding"

EdgeKey(r) == <<r.source_node_id, r.target_node_id, r.relationship_type>>

\* C7: no two committed Relationships share (source_node_id, target_node_id,
\* relationship_type).
C7_NoDuplicateEdges ==
    \A i, j \in 1..Len(relationships) :
        i # j => EdgeKey(relationships[i]) # EdgeKey(relationships[j])

\* The context shown to the oracle for record n: the context_window highest
\* record numbers below n that have a Post.
ContextOf(n, rows) ==
    {m \in PostNos(rows) :
        m < n /\ Cardinality({k \in PostNos(rows) : m < k /\ k < n}) < context_window}

\* C8: every IS_REPLY_TO edge of a Post targets a Post of its oracle context.
C8_ReplyTargetsWithinContext ==
    \A i \in 1..Len(relationships) :
        relationships[i].relationship_type = "IS_REPLY_TO"
          => NoOfId(posts, relationships[i].target_node_id)
               \in ContextOf(NoOfId(posts, relationships[i].source_node_id), posts)

\* A blank-padded run of digits: what counts as an integer item.
IsIntegerItem(item) ==
    \E a, b \in 1..Len(item) :
        /\ a <= b
        /\ \A k \in 1..Len(item) :
              IF a <= k /\ k <= b THEN item[k] \in DOMAIN DigitVal ELSE item[k] = " "

\* The item of text t that starts after position a and ends before position b.
IsItemOf(t, a, b) ==
    /\ a < b
    /\ a = 0 \/ t[a] = ","
    /\ b = Len(t) + 1 \/ t[b] = ","
    /\ \A k \in (a + 1)..(b - 1) : t[k] # ","

\* A response that is neither NONE nor a comma-separated list of integers.
Malformed(t) ==
    /\ t # NONE
    /\ \E a, b \in 0..(Len(t) + 1) :
          IsItemOf(t, a, b) /\ ~IsIntegerItem(SubSeq(t, a + 1, b - 1))

ReplyEdges(rels) ==
    {i \in 1..Len(rels) : rels[i].relationship_type = "IS_REPLY_TO"}

\* C9: whenever a record is about to be handled, every malformed response
\* leads to no exception, to the record's Post being staged and to no new
\* IS_REPLY_TO edge; and a record whose response logged a parse warning has
\* its Post staged in a batch that is still running, without any
\* IS_REPLY_TO edge of its own.
C9_MalformedResponseGivesNoEdges ==
    /\ (s_pc = "running" /\ processed_count < Len(new_posts))
         => \A t \in ReplyTexts :
               Malformed(t)
                 => LET handled == HandleRecord(t)
                    IN  /\ ~handled.raised
                        /\ PostNos(handled.s_posts) = PostNos(s_posts) \cup {handled.no}
                        /\ ReplyEdges(handled.s_rels) = ReplyEdges(s_rels)
    /\ \A n \in s_warned :
          /\ s_pc = "running"
          /\ n \in PostNos(s_posts)
          /\ \A i \in ReplyEdges(s_rels) :
                NoOfId(s_posts, s_rels[i].source_node_id) # n

\* C9 witness: in a running batch a record with a malformed response has its
\* Post staged, and a later record of the batch has been handled after it.
C9_Witness ==
    /\ s_pc = "running"
    /\ \E n \in s_warned :
          /\ n \in PostNos(s_posts)
          /\ \E m \in PostNos(s_posts) : m > n

\* The IS_SEQUENTIAL_TO edge from post to target, with its distance.
SequentialEdge(post, target) ==
    Relationship(post.post_id, target.post_id, "IS_SEQUENTIAL_TO",
                 [distance |-> target.source_post_no - post.source_post_no])

\* C10 as claimed: the result holds exactly one edge to every Post M with
\* N < M <= N + window_size, with distance M - N, and nothing else.
C10_SequentialEdgesByNumberRange ==
    seq_call.called
      => /\ Range(seq_call.rels) =
               {SequentialEdge(seq_call.post, m) :
                   m \in {q \in posts :
                            /\ seq_call.post.source_post_no < q.source_post_no
                            /\ q.source_post_no
                                 <= seq_call.post.source_post_no + seq_call.window_size}}
         /\ Len(seq_call.rels) = Cardinality(Range(seq_call.rels))

\* C10 amended: the result holds exactly one edge to every Post M whose
\* record is among the window_size source records that follow N in ascending
\* order, with distance M - N >= 1, and nothing else.
C10_SequentialEdgesByFollowingRecords ==
    seq_call.called
      => /\ Range(seq_call.rels) =
               {SequentialEdge(seq_call.post, m) :
                   m \in {q \in posts :
                            /\ seq_call.post.source_post_no < q.source_post_no
                            /\ Cardinality({n \in res :
                                              /\ seq_call.post.source_post_no < n
                                              /\ n <= q.source_post_no})
                                 <= seq_call.window_size}}
         /\ Len(seq_call.rels) = Cardinality(Range(seq_call.rels))
         /\ \A i \in 1..Len(seq_call.rels) : seq_call.rels[i].properties.distance >= 1

\* C10 witness: a call over a source with a gap right after N returned an
\* edge whose distance exceeds window_size.
C10_Witness ==
    /\ seq_call.called
    /\ \E i \in 1..Len(seq_call.rels) :
          seq_call.rels[i].properties.distance > seq_call.window_size
    /\ Len(seq_call.rels) >= 2

\* The numbers a comma-separated list of integers names.
NamedNos(t) ==
    {ToInt(SubSeq(t, ab[1] + 1, ab[2] - 1)) :
        ab \in {xy \in (0..(Len(t) + 1)) \X (0..(Len(t) + 1)) : IsItemOf(t, xy[1], xy[2])}}

\* A response that is a comma-separated list of integers.
IsNumberList(t) == t # NONE /\ t # <<>> /\ ~Malformed(t)

\* C11: every Relationship, committed or staged, has the ids of Posts the
\* same transaction holds as source and target; and whenever a record with a
\* non-empty context is about to be handled, every response that is a list
\* of integers leads to the record's Post being staged with IS_REPLY_TO
\* edges to exactly the named numbers that have a Post: a named number
\* without a Post costs that edge only.
C11_EdgesReferenceExistingNodes ==
    /\ \A i \in 1..Len(relationships) :
          /\ relationships[i].source_node_id \in PostIds(posts)
          /\ relationships[i].target_node_id \in PostIds(posts)
    /\ \A i \in 1..Len(s_rels) :
          /\ s_rels[i].source_node_id \in PostIds(posts \cup s_posts)
          /\ s_rels[i].target_node_id \in PostIds(posts \cup s_posts)
    /\ (/\ s_pc = "running"
        /\ processed_count < Len(new_posts)
        /\ ContextOf(new_posts[processed_count + 1], Visible) # {})
         => \A t \in ReplyTexts :
               IsNumberList(t)
                 => LET handled == HandleRecord(t)
                        seen == posts \cup handled.s_posts
                        added == {i \in ReplyEdges(handled.s_rels) : i > Len(s_rels)}
                    IN  /\ ~handled.raised
                        /\ PostNos(handled.s_posts) = PostNos(s_posts) \cup {handled.no}
                        /\ {handled.s_rels[i].target_node_id : i \in added}
                             = {p.post_id : p \in {q \in seen :
                                                     q.source_post_no \in NamedNos(t)}}
                        /\ \A i \in added :
                              NoOfId(seen, handled.s_rels[i].source_node_id) = handled.no

\* C11 witness: over committed Posts a record is about to be handled, and a
\* response naming one number with a Post and one without adds exactly one
\* IS_REPLY_TO edge.
C11_Witness ==
    /\ s_pc = "running"
    /\ processed_count < Len(new_posts)
    /\ posts # {}
    /\ \E t \in ReplyTexts :
          /\ IsNumberList(t)
          /\ \E n \in NamedNos(t) : n \notin PostNos(Visible) \cup {new_posts[processed_count + 1]}
          /\ \E n \in NamedNos(t) : n \in PostNos(Visible)
          /\ Cardinality(ReplyEdges(HandleRecord(t).s_rels)) =
                Cardinality(ReplyEdges(s_rels)) + 1

\* The members of the windows yielded so far.
Covered(windows) == UNION {Range(windows[i].res_details) : i \in 1..Len(windows)}

\* The member range of window i.
RangeOf(windows, i) == <<windows[i].start_no, windows[i].end_no>>

\* C12: a chunker with stride < 1 is rejected before any window is made:
\* lazy_load of such a loader never gets to run, and create_windows raises.
C12_NonPositiveStrideRejected ==
    t_loader.stride < 1
      => /\ t_pc \in {"off", "init"}
         /\ t_yielded = <<>>
         /\ cw_call.called => cw_call.raised /\ cw_call.windows = <<>>

\* C13: with stride >= 1 and overlap >= 0 a running lazy_load comes to its
\* end.
C13_LazyLoadTerminates ==
    (t_pc = "running" /\ t_loader.stride >= 1 /\ t_loader.overlap >= 0)
      ~> (t_pc = "done")

\* C14: with stride >= 1, at least window_size records and a record count
\* that is no multiple of the stride, the last window yielded has exactly
\* window_size members.
C14_LastWindowIsFull ==
    (/\ t_pc = "done"
     /\ t_loader.stride >= 1
     /\ Len(t_all_docs) >= t_loader.window_size
     /\ Len(t_all_docs) % t_loader.stride # 0)
      => t_yielded[Len(t_yielded)].res_count = t_loader.window_size

\* C15: with 0 <= overlap < window_size, at every point of the loop all
\* documents before the position are members of a yielded window, and when
\* the loop has ended every document is.
C15_EveryRecordCovered ==
    (/\ t_pc \in {"running", "done"}
     /\ 0 <= t_loader.overlap
     /\ t_loader.overlap < t_loader.window_size)
      => /\ \A k \in 1..Len(t_all_docs) :
               k <= t_position => t_all_docs[k] \in Covered(t_yielded)
         /\ t_pc = "done" => Range(t_all_docs) = Covered(t_yielded)

\* C15 witness: a run has ended after a snap-back: a later window starts
\* below an earlier one.
C15_Witness ==
    /\ t_pc = "done"
    /\ 0 <= t_loader.overlap
    /\ t_loader.overlap < t_loader.window_size
    /\ \E i, j \in 1..Len(t_yielded) :
          i < j /\ t_yielded[j].start_no < t_yielded[i].start_no

\* C16: records 1..130 with window_size 50 and overlap 20 give exactly the
\* windows [1,50], [31,80], [61,110], [81,130], in that order.
C16_ExampleGivesFourWindows ==
    (/\ t_pc = "done"
     /\ res = 1..130
     /\ t_loader = ThreadAwareLoader(50, 20))
      => [i \in 1..Len(t_yielded) |-> RangeOf(t_yielded, i)]
           = <<<<1, 50>>, <<31, 80>>, <<61, 110>>, <<81, 130>>>>

C18_RebuildFromOneWindowBefore ==
    (t_loader.incremental /\ t_pc \in {"running", "done"})
      => LET S == t_loader.start_no + 1
             bound == Max({0, S - t_loader.window_size})
         IN  /\ Range(t_all_docs) = {n \in res : n >= bound}
             /\ Covered(t_yielded) \subseteq {n \in res : n >= bound}

\* C18 witness: an incremental run has ended that read records below the
\* new data and left records below the bound unread.
C18_Witness ==
    /\ t_loader.incremental
    /\ t_pc = "done"
    /\ \E n \in Covered(t_yielded) : n <= t_loader.start_no
    /\ \E n \in res : n \notin Range(t_all_docs)
    /\ \E n \in Covered(t_yielded) : n > t_loader.start_no

\* C19: with records 1..135 and checkpoint 130 the incremental run with
\* window_size 50 and overlap 20 yields window [81,130] and a window that
\* ends at 135 and holds all of 131..135, and no window starting below 81.
C19_ExampleIncrementalUpdate ==
    (/\ t_pc = "done"
     /\ res = 1..135
     /\ t_loader = IncrementalThreadAwareLoader(130, 50, 20))
      => /\ \E i \in 1..Len(t_yielded) : RangeOf(t_yielded, i) = <<81, 130>>
         /\ \E i \in 1..Len(t_yielded) :
               /\ t_yielded[i].end_no = 135
               /\ 131..135 \subseteq Range(t_yielded[i].res_details)
         /\ \A i \in 1..Len(t_yielded) : t_yielded[i].start_no >= 81

\* C19 witness: that run has ended, with its two windows yielded.
C19_Witness ==
    /\ t_pc = "done"
    /\ res = 1..135
    /\ t_loader.incremental
    /\ t_loader.start_no = 130
    /\ Len(t_yielded) = 2

\* C20: the index holds at most one window per (start_no, end_no).
C20_OneWindowPerIdentity ==
    \A i, j \in 1..Len(index_docs) :
        i # j => RangeOf(index_docs, i) # RangeOf(index_docs, j)

\* A window of the build that ended at record `last` which was a partial
\* trailing window: fewer than window_size members, ending at `last`.
PartialTrailing(window, last) ==
    window.res_count < index_window_size /\ window.end_no = last

\* C21: when an update_index run that found new records above the checkpoint
\* ends with all its batches added, the index holds no partial trailing
\* window of the previous build any more.
C21_PartialTrailingWindowReplaced ==
    [][(/\ u_pc = "adding"
        /\ u_pc' = "idle"
        /\ u_skipped = {}
        /\ latest_no > u_start_no)
          => \A i \in 1..Len(index_docs') :
                ~PartialTrailing(index_docs'[i], u_start_no)]_vars

\* The posts one edge of a selected type away from a post of S, in either
\* direction, together with S.
OneEdgeFrom(S, rows, rels, types) ==
    S \cup {p \in rows :
              \E q \in S, i \in 1..Len(rels) :
                 /\ types = {} \/ rels[i].relationship_type \in types
                 /\ \/ rels[i].source_node_id = q.post_id /\ rels[i].target_node_id = p.post_id
                    \/ rels[i].target_node_id = q.post_id /\ rels[i].source_node_id = p.post_id}

\* The posts connected to a post of S by a chain of at most k such edges.
RECURSIVE WithinEdges(_, _, _, _, _)
WithinEdges(S, k, rows, rels, types) ==
    IF k = 0 THEN S ELSE WithinEdges(OneEdgeFrom(S, rows, rels, types), k - 1, rows, rels, types)

\* The existing seeds of the call, and what is reachable from them within k edges.
SeedsOf(call) == {p \in posts : p.post_id \in call.start_ids}

ReachableOf(call, k) == WithinEdges(SeedsOf(call), k, posts, relationships,
                                    call.relationship_types)

\* The shortest distance of a reachable post from the seeds.
DistanceOf(call, p) == CHOOSE k \in 0..call.max_depth :
                          /\ p \in ReachableOf(call, k)
                          /\ \A j \in 0..(k - 1) : p \notin ReachableOf(call, j)

IsRelatedCall == g_call.called /\ g_call.method = "get_related_posts_recursive"

IsContextCall == g_call.called /\ g_call.method = "get_conversation_context"

NosOf(list) == [i \in 1..Len(list) |-> list[i].source_post_no]

\* C22: every get_related_posts_recursive call ends (the recursive query runs
\* dry within max_depth + 1 rounds), returns at most max_nodes posts, and no
\* path of a row it built holds a post id twice.
C22_TraversalTerminates ==
    IsRelatedCall
      => /\ g_call.result.done
         /\ g_call.result.rounds <= g_call.max_depth + 1
         /\ Len(g_call.result.posts) <= g_call.max_nodes
         /\ \A row \in DOMAIN g_call.result.rows :
               Cardinality(Range(row.path)) = Len(row.path)

\* C22 witness: a call with max_depth 2 over a graph with a cycle of two
\* relationships between a seed and another post returned both.
C22_Witness ==
    /\ IsRelatedCall
    /\ g_call.max_depth = 2
    /\ Len(g_call.result.posts) >= 2
    /\ \E i, j \in 1..Len(relationships) :
          /\ relationships[i].source_node_id = relationships[j].target_node_id
          /\ relationships[i].target_node_id = relationships[j].source_node_id
          /\ relationships[i].source_node_id # relationships[i].target_node_id
          /\ relationships[i].source_node_id \in g_call.start_ids
          /\ relationships[i].relationship_type = relationships[j].relationship_type
          /\ relationships[i].relationship_type \in g_call.relationship_types

\* C23: when no more than max_nodes posts are reachable, the call returns
\* exactly the existing seeds and the posts within max_depth edges of the
\* selected types from them, each once, in ascending number; so the result
\* is fixed by the graph, the seeds and the parameters.  With seed N5 and the
\* relationships N5 -> N3, N3 -> N1 that is N1, N3, N5 for max_depth 2 and
\* N3, N5 for max_depth 1.
C23_TraversalReturnsReachable ==
    IsRelatedCall
      => LET reachable == ReachableOf(g_call, g_call.max_depth)
             found == g_call.result.posts
         IN  /\ Cardinality(reachable) <= g_call.max_nodes
                  => /\ Range(found) = reachable
                     /\ Len(found) = Cardinality(reachable)
                     /\ \A i, j \in 1..Len(found) :
                           i < j => found[i].source_post_no < found[j].source_post_no
             /\ (/\ posts = {GraphPost(1), GraphPost(2), GraphPost(3)}
                 /\ relationships =
                       <<GraphRelationship(posts, <<GraphPost(3).post_id,
                                                    GraphPost(2).post_id, "IS_REPLY_TO">>),
                         GraphRelationship(posts, <<GraphPost(2).post_id,
                                                    GraphPost(1).post_id, "IS_REPLY_TO">>)>>
                 /\ g_call.start_ids = {GraphPost(3).post_id}
                 /\ g_call.relationship_types \in {{}, {"IS_REPLY_TO"}}
                 /\ g_call.max_nodes = 3)
                  => /\ g_call.max_depth = 2 => NosOf(found) = <<1, 3, 5>>
                     /\ g_call.max_depth = 1 => NosOf(found) = <<3, 5>>

\* C23 witness: the call of the example with max_depth 2 returned N1, N3, N5.
C23_Witness ==
    /\ IsRelatedCall
    /\ g_call.start_ids = {GraphPost(3).post_id}
    /\ g_call.max_depth = 2
    /\ g_call.relationship_types = {"IS_REPLY_TO"}
    /\ Len(relationships) = 2
    /\ relationships[1].source_node_id = GraphPost(3).post_id
    /\ relationships[1].target_node_id = GraphPost(2).post_id
    /\ relationships[2].source_node_id = GraphPost(2).post_id
    /\ relationships[2].target_node_id = GraphPost(1).post_id
    /\ NosOf(g_call.result.posts) = <<1, 3, 5>>

\* C24: the call never returns a post at shortest distance d from the seeds
\* while leaving out a reachable post at a smaller distance.
C24_NearerPostsFirst ==
    IsRelatedCall
      => LET reachable == ReachableOf(g_call, g_call.max_depth)
             found == Range(g_call.result.posts)
         IN  \A p \in found, q \in reachable :
                DistanceOf(g_call, q) < DistanceOf(g_call, p) => q \in found

\* C25: get_conversation_context returns the posts of its two traversals,
\* each post id once, in ascending number; every relationship it returns
\* has source and target among these posts, and every stored relationship
\* between two of them is returned.
C25_ContextIsClosedAndDeduplicated ==
    IsContextCall
      => LET found == g_call.result.posts
             ids == {found[i].post_id : i \in 1..Len(found)}
             returned == g_call.result.relationships
             reply == get_related_posts_recursive(posts, relationships, g_call.start_ids,
                          {"IS_REPLY_TO"}, g_call.max_depth, g_call.max_nodes).posts
             sequential == get_related_posts_recursive(posts, relationships,
                               g_call.start_ids, {"IS_SEQUENTIAL_TO"}, g_call.max_depth,
                               g_call.max_nodes).posts
         IN  /\ Cardinality(ids) = Len(found)
             /\ Range(found) = Range(reply) \cup Range(sequential)
             /\ \A i, j \in 1..Len(found) :
                   i < j => found[i].source_post_no < found[j].source_post_no
             /\ \A i \in 1..Len(returned) :
                   returned[i].source_node_id \in ids /\ returned[i].target_node_id \in ids
             /\ Len(returned) =
                   Cardinality({i \in 1..Len(relationships) :
                                   /\ relationships[i].source_node_id \in ids
                                   /\ relationships[i].target_node_id \in ids})

\* C25 witness: a context call returned posts found by both traversals and
\* by one only, with a relationship between them, and left a stored
\* relationship out.
C25_Witness ==
    /\ IsContextCall
    /\ g_call.result.stats.reply_posts + g_call.result.stats.sequential_posts
         > g_call.result.stats.total_posts
    /\ g_call.result.stats.total_posts > g_call.result.stats.sequential_posts
    /\ Len(g_call.result.relationships) >= 1
    /\ Len(g_call.result.relationships) < Len(relationships)

\* The numbers of the Posts the open session sees below record n.
PriorNos(n) == {p.source_post_no : p \in {q \in posts \cup s_posts : q.source_post_no < n}}

\* C26: the records of a batch are handled in ascending number, one at a
\* time; the context of the prompt for record N lists, in ascending order,
\* exactly the min(context_window, number of prior Posts) Posts with the
\* highest numbers below N, those staged earlier in the same batch included,
\* and never N or a later record; no prompt is sent only when N has no prior
\* Post.
C26_ContextIsMostRecentPriorPosts ==
    (s_pc = "running" /\ processed_count > 0)
      => LET N == new_posts[processed_count]
             prior == PriorNos(N)
             size == IF Cardinality(prior) < context_window
                     THEN Cardinality(prior) ELSE context_window
         IN  /\ \A i, j \in 1..Len(new_posts) : i < j => new_posts[i] < new_posts[j]
             /\ {p.source_post_no : p \in s_posts} =
                   {new_posts[i] : i \in 1..processed_count}
             /\ s_prompt.sent <=> prior # {}
             /\ s_prompt.sent
                  => /\ s_prompt.no = N
                     /\ Len(s_prompt.context) = size
                     /\ \A i, j \in 1..size :
                           i < j => s_prompt.context[i] < s_prompt.context[j]
                     /\ Range(s_prompt.context) \subseteq prior
                     /\ \A m \in prior \ Range(s_prompt.context) :
                           \A c \in Range(s_prompt.context) : m < c

\* C26 witness: the prompt for record 4 lists 2 and 3, where 3 was staged
\* in the same batch and the committed Post of record 1 is left out.
C26_Witness ==
    /\ s_pc = "running"
    /\ processed_count = 2
    /\ new_posts = <<3, 4>>
    /\ s_prompt = [sent |-> TRUE, no |-> 4, context |-> <<2, 3>>]
    /\ {p.source_post_no : p \in posts} = {1, 2}

\* The record numbers that have a committed Post.
CommittedNos == {p.source_post_no : p \in posts}

\* The watermark of the graph store: the highest committed number, or 0.
WatermarkOf(rows) == IF rows = {} THEN 0
                   ELSE CHOOSE w \in {p.source_post_no : p \in rows} :
                           \A p \in rows : p.source_post_no <= w

\* The k lowest records of the source above the watermark w.
LowestAbove(source, w, k) ==
    {n \in source : n > w /\ Cardinality({m \in source : w < m /\ m < n}) < k}

\* sync_batch raises in this step, inside the record loop or at the commit.
BatchRaises == s_pc = "running" /\ sync_result'.kind = "raised"

\* C27: in run_continuous_sync an exception of sync_batch does not end the
\* loop: the failed batch leaves the graph store as it was, with all its
\* records above the watermark; the loop sleeps once, in the handler, and
\* calls sync_batch again; that call extracts the lowest records above the
\* watermark of the store, the record named in the error among them.
C27_CaughtExceptionIsRetried ==
    [][run.mode = "continuous" =>
         /\ BatchRaises
              => /\ graph_vars' = graph_vars
                 /\ Range(new_posts) \subseteq
                       LowestAbove(res', WatermarkOf(posts'), sync_batch_size)
         /\ (run.pc = "in_batch" /\ sync_result.kind = "raised" /\ run' # run)
              => /\ run'.pc = "retry_sleeping"
                 /\ run'.outcome = "running"
                 /\ run'.slept = 1
                 /\ graph_vars' = graph_vars
         /\ (run.pc = "retry_sleeping" /\ run' # run /\ run'.outcome = "running")
              => /\ run'.pc = "loop"
                 /\ run'.slept = 1
                 /\ graph_vars' = graph_vars
         /\ (run.pc = "loop" /\ run'.pc = "in_batch")
              => /\ run.called => run.slept = 1
                 /\ graph_vars' = graph_vars
         /\ (/\ run.caught /\ sync_result = Pending /\ s_pc = "idle"
             /\ s_pc' = "running" \/ sync_result'.kind = "returned")
              => /\ s_pc' = "running"
                 /\ Range(new_posts') = LowestAbove(res, WatermarkOf(posts), sync_batch_size)
                 /\ run.failed_no # 0 => run.failed_no \in Range(new_posts')]_vars

\* C27 witness: after one caught failure on record 2 the loop has slept and
\* the next sync_batch is handling the extracted records 1 and 2 again.
C27_Witness ==
    /\ run.mode = "continuous"
    /\ run.pc = "in_batch"
    /\ run.caught
    /\ run.failures = 1
    /\ run.failed_no = 2
    /\ s_pc = "running"
    /\ new_posts = <<1, 2>>
    /\ processed_count = 1

\* C28: a KeyboardInterrupt while run_continuous_sync sleeps, after a batch
\* or after a caught error, or between batches, makes it return normally:
\* the process ends with status 0 and the graph store is as it was.
C28_InterruptReturnsNormally ==
    [][(/\ run.mode = "continuous"
        /\ run.pc \in {"loop", "sleeping", "retry_sleeping"}
        /\ run'.pc = "exited")
          => /\ run'.outcome = "returned"
             /\ run'.exit_status = 0
             /\ graph_vars' = graph_vars]_vars

\* C29: in sync_all an exception of sync_batch leaves sync_all and ends the
\* process with a non-zero status; the failed batch leaves the graph store
\* as it was, so the batches committed before stay; after the exit nothing
\* is synchronized any more.
C29_SyncAllPropagatesFailure ==
    [][/\ (run.mode = "sync_all" /\ BatchRaises) => graph_vars' = graph_vars
       /\ (/\ run.mode = "sync_all" /\ run.pc = "in_batch"
           /\ sync_result.kind = "raised" /\ run' # run)
            => /\ run'.pc = "exited"
               /\ run'.outcome = "raised"
               /\ run'.exit_status # 0
               /\ graph_vars' = graph_vars
               /\ Cardinality(posts') = run.total_processed
       /\ run.pc = "exited" => (run' = run /\ sync_vars' = sync_vars)]_vars

\* C29 witness: sync_all committed record 1, the batch of record 2 failed,
\* and the process ended with status 1 with the Post of record 1 in place.
C29_Witness ==
    /\ run.mode = "sync_all"
    /\ run.pc = "exited"
    /\ run.outcome = "raised"
    /\ run.exit_status = 1
    /\ run.total_processed = 1
    /\ CommittedNos = {1}
    /\ res = {1, 2}
    /\ sync_result = Raised(2)

\* C30: every record gets exactly one Post.  sync_all ends; when it returns,
\* its last sync_batch found every record of the source synchronized, the
\* watermark at the highest number, and the total returned is the number of
\* Posts committed.  Under run_continuous_sync, with failures that stop,
\* every record of the source gets a committed Post unless the loop is
\* interrupted.
C30_EveryRecordSynchronizedOnce ==
    /\ [](/\ Cardinality(posts) = Cardinality(CommittedNos)
          /\ CommittedNos \subseteq res)
    /\ [][(/\ run.mode = "sync_all" /\ sync_result = Pending
           /\ sync_result'.kind = "returned" /\ sync_result'.count = 0)
            => /\ CommittedNos = res
               /\ WatermarkOf(posts) = (IF res = {} THEN 0 ELSE Max(res))]_vars
    /\ [][(/\ run.mode = "sync_all" /\ run.pc # "exited" /\ run'.pc = "exited"
           /\ run'.outcome = "returned")
            => /\ sync_result = Returned(0)
               /\ run'.total_processed = Cardinality(posts)]_vars
    /\ (run.mode = "sync_all") ~> (run.pc = "exited")
    /\ \A n \in 1..MaxNoJoint :
          (run.mode = "continuous" /\ n \in res)
             ~> (n \in CommittedNos \/ run.pc = "exited")

\* C30 witness: run_continuous_sync, after two caught failures, has
\* committed a Post for each of the two records of the source and sleeps.
C30_Witness ==
    /\ run.mode = "continuous"
    /\ run.pc = "sleeping"
    /\ run.failures = MaxFailures
    /\ res = {1, 2}
    /\ CommittedNos = res
    /\ Cardinality(posts) = 2

\* The IS_SEQUENTIAL_TO rows of a list of relationships.
SequentialEdges(rels) ==
    {i \in 1..Len(rels) : rels[i].relationship_type = "IS_SEQUENTIAL_TO"}

\* C33: with one synchronizer over an append-only source, every record still
\* to be handled in a batch has a higher number than every Post the session
\* sees, and no IS_SEQUENTIAL_TO relationship is ever staged or committed.
C33_NoSequentialEdgeInOrder ==
    /\ SequentialEdges(relationships) = {}
    /\ SequentialEdges(s_rels) = {}
    /\ s_pc = "running"
         => \A k \in (processed_count + 1)..Len(new_posts) :
               \A q \in posts \cup s_posts : q.source_post_no < new_posts[k]

\* C33 witness: over committed Posts, the first record of a batch of two has
\* been handled while the record that follows it was in the source.
C33_Witness ==
    /\ s_pc = "running"
    /\ processed_count = 1
    /\ Len(new_posts) = 2
    /\ new_posts[2] \in res
    /\ posts # {}
    /\ s_rels = <<>>

\* C34: when the call names no more existing seeds than max_nodes, every
\* existing seed is among the posts returned.
C34_SeedsAreReturned ==
    IsRelatedCall
      => (Cardinality(SeedsOf(g_call)) <= g_call.max_nodes
            => SeedsOf(g_call) \subseteq Range(g_call.result.posts))

\* The IS_REPLY_TO rows of the committed relationships.
CommittedReplyEdges ==
    {i \in 1..Len(relationships) : relationships[i].relationship_type = "IS_REPLY_TO"}

\* C39: every committed IS_REPLY_TO relationship goes from a Post to a Post
\* with a strictly smaller number; none goes from a Post to itself.
C39_ReplyEdgesPointBack ==
    \A i \in CommittedReplyEdges :
       /\ relationships[i].source_node_id # relationships[i].target_node_id
       /\ NoOfId(posts, relationships[i].target_node_id)
            < NoOfId(posts, relationships[i].source_node_id)

\* C40: get_conversation_context returns at most max_nodes posts in total.
C40_ContextWithinMaxNodes ==
    IsContextCall => Len(g_call.result.posts) <= g_call.max_nodes

\* The pages of a scan joined in the order they were returned.
RECURSIVE Joined(_)
Joined(pages) == IF pages = <<>> THEN <<>> ELSE Head(pages) \o Joined(Tail(pages))

\* C31: the records a paginated scan returns are in strictly increasing
\* number, at most `limit` per page, all from the source and above the
\* starting number; no record of the source between the starting number and
\* the last one returned is missing, also when records arrive between two
\* pages; and when the scan ends on an empty page it has returned every
\* record of the source above the starting number, each once.
C31_ScanReturnsEachRecordOnce ==
    /\ [](scan.pc # "off"
            => LET got == Joined(scan.pages)
               IN  /\ \A i, j \in 1..Len(got) : i < j => got[i] < got[j]
                   /\ \A k \in 1..Len(scan.pages) :
                         Len(scan.pages[k]) \in 1..scan.limit
                   /\ Range(got) = {n \in res : scan.start_no < n /\ n <= scan.last_no}
                   /\ got # <<>> => scan.last_no = got[Len(got)])
    /\ [][(scan.pc = "paging" /\ scan'.pc = "done")
            => /\ Range(Joined(scan'.pages)) = {n \in res : n > scan.start_no}
               /\ Len(Joined(scan'.pages)) = Cardinality({n \in res : n > scan.start_no})]_vars

\* C31 witness: a scan with pages of up to two records ended after the pages
\* <<2>> and <<3, 4>>: records 3 and 4 arrived after the first page was read.
C31_Witness ==
    /\ scan.pc = "done"
    /\ scan.limit = 2
    /\ scan.start_no = 1
    /\ scan.pages = <<<<2>>, <<3, 4>>>>
    /\ res = {1, 2, 3, 4}

\* C38: with two synchronizers at work every committed state holds at most
\* one Post per number and no Relationship from or to a Post that is not
\* committed; a synchronizer whose flush meets a number the other one
\* committed raises and leaves the graph store as it was.
C38_ConcurrentSyncKeepsGraphSound ==
    /\ [](/\ Cardinality(posts) = Cardinality(CommittedNos)
          /\ \A i \in 1..Len(relationships) :
                /\ relationships[i].source_node_id \in PostIds(posts)
                /\ relationships[i].target_node_id \in PostIds(posts))
    /\ [][/\ (other.pc = "running" /\ other'.result.kind = "raised"
                 /\ other'.result # other.result)
               => graph_vars' = graph_vars /\ other'.pc = "idle" /\ other'.s_posts = {}
          /\ (s_pc = "running" /\ sync_result'.kind = "raised"
                 /\ sync_result' # sync_result)
               => graph_vars' = graph_vars /\ s_pc' = "idle" /\ s_posts' = {}]_vars

\* C38 witness: both synchronizers extracted records 1 and 2 from the same
\* watermark; the first one committed them, and the second one's flush of
\* record 1 raised and its session was rolled back.
C38_Witness ==
    /\ CommittedNos = {1, 2}
    /\ Cardinality(posts) = 2
    /\ sync_result = Returned(2)
    /\ other.result = Raised(1)
    /\ other.pc = "idle"

\* ------------------------------------------------------------------ C32

HealthPath == <<"health">>

ChatHealthPath == <<"api", "v1", "health">>

C35_AskWithStreamingFinishes ==
    (stream.pc # "off" /\ stream.task \in {"ended", "failed"}) ~> (stream.pc = "done")

\* ------------------------------------------------------------------ C36

\* The positions of the events that carry done = true.
ClosingEvents == {i \in 1..Len(stream.events) : stream.events[i].done}

C36_WitnessError ==
    /\ stream.pc = "done"
    /\ stream.task = "failed"
    /\ Len(stream.events) >= 2

\* ------------------------------------------------------------------ C37

\* The characters that occur in the answers only inside a citation block.
BlockChars == {"[", "S", "]", "E", "j", "x"}

\* C37: no token event carries a part of a citation block, however the
\* upstream text is split into tokens.
C37_NoTokenEventCarriesCitationText ==
    stream.pc # "off" =>
      \A i \in 1..Len(stream.events) :
         stream.events[i].type = "token"
            => \A k \in 1..Len(stream.events[i].payload) :
                  stream.events[i].payload[k] \notin BlockChars

\* The same for the runs in which every token that holds a part of a block
\* holds the whole block, as the token ask_with_streaming yields at its end.
BlockArrivesWhole ==
    \A i \in 1..Len(stream.upstream) :
       (\E k \in 1..Len(stream.upstream[i]) : stream.upstream[i][k] \in BlockChars)
          => \E json \in {CitationJson, <<"x">>} :
                Has(stream.upstream[i], CitationToken(json))
                  /\ Len(stream.upstream[i]) <= Len(CitationToken(json)) + MaxPlain

C37_WholeBlocksStayOutOfTokenEvents ==
    (stream.pc # "off" /\ BlockArrivesWhole) => C37_NoTokenEventCarriesCitationText

====
